---- MODULE Spec2Model ----
(***************************************************************************)
(* Model of the gnomAD query dispatcher (gnomad/query.py): version         *)
(* detection, default completion, query-support and consistency            *)
(* validation, query document lookup, the transport call with its          *)
(* event-loop fallback, the metadata envelope and the batch runner.        *)
(*                                                                         *)
(* Python values: every scalar is a string; None is the string "None"      *)
(* (which is also how an f-string prints it).  A dict is a function whose  *)
(* DOMAIN is its key set.  A message built by an f-string is the sequence  *)
(* of its pieces.                                                          *)
(***************************************************************************)
EXTENDS Naturals, Sequences, FiniteSets, TLC

\* ------------------------------------------------------------------------
\* Bounds of the model
\* ------------------------------------------------------------------------

\* Longest parameter list handed to the batch runner in SpecBatch.
MaxRecords == 2

\* ------------------------------------------------------------------------
\* Python value helpers
\* ------------------------------------------------------------------------

NoneVal == "None"

\* Truth value of a Python str-or-None: None and "" are falsy.
Truthy(x) == x /= NoneVal /\ x /= ""

\* dict.get(key): the value, or None when the key is absent.
Get(d, k) == IF k \in DOMAIN d THEN d[k] ELSE NoneVal

\* dict without key k (dict.pop on a copy).
Pop(d, k) == [x \in (DOMAIN d) \ {k} |-> d[x]]

\* ------------------------------------------------------------------------
\* Version registry (gnomad/query.py, gnomad/queries/v*.py)
\* ------------------------------------------------------------------------

GNOMAD_API_URL == "https://gnomad.broadinstitute.org/api"

\* Key order of DATASET_MAP / REF_GENOME_MAP (dict insertion order).
\* The versions tried newest first.
VersionOrderNewestFirst == <<"v4", "v3", "v2">>

VersionOrder == <<"v2", "v3", "v4">>

Versions == {VersionOrder[n] : n \in 1..Len(VersionOrder)}

DATASET_MAP == [v \in Versions |->
    CASE v = "v2" -> "gnomad_r2_1"
      [] v = "v3" -> "gnomad_r3"
      [] v = "v4" -> "gnomad_r4"]

KnownDatasets == {"gnomad_r2_1", "gnomad_sv_r2_1", "gnomad_r3",
                  "gnomad_r4", "gnomad_sv_r4", "gnomad_cnv_r4"}

ALL_DATASET_TO_VERSION == [d \in KnownDatasets |->
    CASE d = "gnomad_r2_1"    -> "v2"
      [] d = "gnomad_sv_r2_1" -> "v2"
      [] d = "gnomad_r3"      -> "v3"
      [] d = "gnomad_r4"      -> "v4"
      [] d = "gnomad_sv_r4"   -> "v4"
      [] d = "gnomad_cnv_r4"  -> "v4"]

REF_GENOME_MAP == [v \in Versions |->
    CASE v = "v2" -> "GRCh37"
      [] v = "v3" -> "GRCh38"
      [] v = "v4" -> "GRCh38"]

\* gnomad/queries/v2.py
\* The v2 list without the liftover query.
SUPPORTED_QUERIES_V2NoLiftover ==
    <<"variant", "clinvar_variant", "structural_variant", "gene_search",
      "variant_search", "meta">>

SUPPORTED_QUERIES_V2 ==
    <<"variant", "clinvar_variant", "structural_variant", "gene_search",
      "variant_search", "liftover", "meta">>

\* gnomad/queries/v3.py
SUPPORTED_QUERIES_V3 ==
    <<"variant", "clinvar_variant", "gene_search", "variant_search", "meta">>

\* gnomad/queries/v4.py
SUPPORTED_QUERIES_V4 ==
    <<"gene", "region", "variant", "clinvar_variant", "mitochondrial_variant",
      "structural_variant", "copy_number_variant", "gene_search",
      "variant_search", "short_tandem_repeat", "meta">>

\* version_queries.SUPPORTED_QUERIES of the module imported for the version.
SUPPORTED_QUERIES == [v \in Versions |->
    CASE v = "v2" -> SUPPORTED_QUERIES_V2
      [] v = "v3" -> SUPPORTED_QUERIES_V3
      [] v = "v4" -> SUPPORTED_QUERIES_V4]

\* Elements of a list.
Range(s) == {s[n] : n \in 1..Len(s)}

\* `query_name in SUPPORTED_QUERIES` of the version's module.
IsSupported(version, query_name) == query_name \in Range(SUPPORTED_QUERIES[version])

\* ------------------------------------------------------------------------
\* Messages
\* ------------------------------------------------------------------------

\* str(list of str): ['a', 'b'] as a sequence of pieces.
RECURSIVE ListItems(_)
ListItems(s) ==
    IF s = <<>> THEN <<>>
    ELSE <<"'", Head(s), "'">> \o
         (IF Len(s) > 1 THEN <<", ">> ELSE <<>>) \o ListItems(Tail(s))

ListRepr(s) == <<"[">> \o ListItems(s) \o <<"]">>

DetectErrorMsg(dataset, reference_genome) ==
    <<"Cannot detect version for dataset=", dataset,
      ", reference_genome=", reference_genome>>

VersionErrorMsg ==
    <<"Cannot determine version from dataset/reference_genome/version.">>

UnknownVersionMsg(version) == <<"Unknown gnomAD version: ", version>>

\* UnsupportedMsg without the supported list.
UnsupportedMsgNoList(query_name, version) ==
    <<"Query '", query_name, "' is not supported in gnomAD ", version>>

UnsupportedMsg(query_name, version) ==
    <<"Query '", query_name, "' is not supported in gnomAD ", version,
      " (supported: ">> \o ListRepr(SUPPORTED_QUERIES[version]) \o <<")">>

InconsistentMsg(version, expected) ==
    <<"Inconsistent version: got ", version, ", expected ", expected>>

\* str(KeyError(key)) is repr(key).
KeyErrorMsg(key) == <<"'", key, "'">>

\* ------------------------------------------------------------------------
\* detect_version
\* ------------------------------------------------------------------------

\* Versions whose reference genome equals rg, in table order.
RECURSIVE FirstGenomeMatch(_, _)
FirstGenomeMatch(order, reference_genome) ==
    IF order = <<>> THEN NoneVal
    ELSE IF Truthy(reference_genome)
            /\ REF_GENOME_MAP[Head(order)] = reference_genome
         THEN Head(order)
         ELSE FirstGenomeMatch(Tail(order), reference_genome)

\* detect_version trying the reference genome before the dataset.
detect_versionGenomeFirst(dataset, reference_genome) ==
    LET ver == FirstGenomeMatch(VersionOrder, reference_genome)
    IN  IF ver /= NoneVal
        THEN [raised |-> FALSE, value |-> ver, msg |-> <<>>]
        ELSE IF Truthy(dataset) /\ dataset \in DOMAIN ALL_DATASET_TO_VERSION
        THEN [raised |-> FALSE, value |-> ALL_DATASET_TO_VERSION[dataset],
              msg |-> <<>>]
        ELSE [raised |-> TRUE, value |-> NoneVal,
              msg |-> DetectErrorMsg(dataset, reference_genome)]

\* detect_version raising as soon as a dataset is given that is not in the
\* table.
detect_versionStrictDataset(dataset, reference_genome) ==
    IF Truthy(dataset) /\ dataset \in DOMAIN ALL_DATASET_TO_VERSION
    THEN [raised |-> FALSE, value |-> ALL_DATASET_TO_VERSION[dataset],
          msg |-> <<>>]
    ELSE LET ver == FirstGenomeMatch(VersionOrder, reference_genome)
         IN  IF ver /= NoneVal /\ ~Truthy(dataset)
             THEN [raised |-> FALSE, value |-> ver, msg |-> <<>>]
             ELSE [raised |-> TRUE, value |-> NoneVal,
                   msg |-> DetectErrorMsg(dataset, reference_genome)]

\* detect_version falling back to the newest version instead of raising.
detect_versionDefaulting(dataset, reference_genome) ==
    IF Truthy(dataset) /\ dataset \in DOMAIN ALL_DATASET_TO_VERSION
    THEN [raised |-> FALSE, value |-> ALL_DATASET_TO_VERSION[dataset],
          msg |-> <<>>]
    ELSE LET ver == FirstGenomeMatch(VersionOrder, reference_genome)
         IN  [raised |-> FALSE,
              value |-> IF ver /= NoneVal THEN ver ELSE "v4",
              msg |-> <<>>]

\* detect_version(dataset, reference_genome): [raised, value, msg].
\* raised = TRUE is the ValueError of the last line.
detect_version(dataset, reference_genome) ==
    IF Truthy(dataset) /\ dataset \in DOMAIN ALL_DATASET_TO_VERSION
    THEN [raised |-> FALSE, value |-> ALL_DATASET_TO_VERSION[dataset],
          msg |-> <<>>]
    ELSE LET ver == FirstGenomeMatch(VersionOrder, reference_genome)
         IN  IF ver /= NoneVal
             THEN [raised |-> FALSE, value |-> ver, msg |-> <<>>]
             ELSE [raised |-> TRUE, value |-> NoneVal,
                   msg |-> DetectErrorMsg(dataset, reference_genome)]

\* ------------------------------------------------------------------------
\* Values exchanged between the steps
\* ------------------------------------------------------------------------

EmptyMap == [k \in {} |-> ""]

NoResponse == [tag |-> "none", error |-> <<>>, document |-> <<>>,
               variable_values |-> EmptyMap]

\* {"error": message}
ErrorResponse(msg) == [tag |-> "error", error |-> msg, document |-> <<>>,
                       variable_values |-> EmptyMap]

\* The decoded JSON the transport answers for (document, variable_values).
DataResponse(document, variable_values) ==
    [tag |-> "data", error |-> <<>>, document |-> document,
     variable_values |-> variable_values]

\* How run_query ended: not yet, by a return value, or by a raised exception.
NoOutcome == [kind |-> "none", type |-> "", msg |-> <<>>, value |-> NoResponse]

Return(response) ==
    [kind |-> "return", type |-> "", msg |-> <<>>, value |-> response]

Raise(type, msg) ==
    [kind |-> "raise", type |-> type, msg |-> msg, value |-> NoResponse]

NoEnvelope == [endpoint |-> "", request_query |-> "",
               request_variables |-> EmptyMap, response |-> NoResponse]

\* Exception classes the steps can raise; all derive from Exception.
ExceptionTypes == {"ValueError", "KeyError", "RuntimeError", "TransportError"}

\* ------------------------------------------------------------------------
\* Query document store (gnomad/queries/<version>/<query_name>.graphql)
\* ------------------------------------------------------------------------

\* QueryPath with the version directory fixed instead of the resolved one.
QueryPathFixedVersion(version, query_name) ==
    <<"gnomad", "queries", "v4", query_name, ".graphql">>

\* os.path.join('gnomad', 'queries', version, f'{query_name}.graphql')
QueryPath(version, query_name) ==
    <<"gnomad", "queries", version, query_name, ".graphql">>

\* Text of the document generated for (version, query_name).
DocumentText(version, query_name) == <<"query", version, query_name>>

AllQueryNames == UNION {Range(SUPPORTED_QUERIES[w]) : w \in Versions}

SupportedPairs ==
    {pr \in Versions \X AllQueryNames : IsSupported(pr[1], pr[2])}

\* File of the document generated for (version, query_name).
DocumentFile(version, query_name) ==
    <<"gnomad", "queries", version, query_name, ".graphql">>

\* The store holding the documents of the given (version, query_name) pairs.
StoreOf(pairs) ==
    [p \in {DocumentFile(pr[1], pr[2]) : pr \in pairs} |->
        DocumentText(p[3], p[4])]

\* Stores the dispatcher may find on disk: complete, or with documents missing.
StoreOptions ==
    { StoreOf(SupportedPairs),
      StoreOf(SupportedPairs \ {<<"v2", "variant">>, <<"v3", "meta">>,
                                <<"v4", "gene">>}) }

\* os.path.exists(query_path)
PathExists(store, query_path) == query_path \in DOMAIN store

\* ------------------------------------------------------------------------
\* server.py: what each tool does before it calls run_query_with_metadata
\* ------------------------------------------------------------------------

\* The tool raised ValueError(msg) before any call of the dispatcher.
Reject(msg) ==
    [kind |-> "raise", query_name |-> "", variables |-> EmptyMap,
     msg |-> <<msg>>]

\* The tool calls run_query_with_metadata(qname, vars).
Dispatch(qname, vars) ==
    [kind |-> "dispatch", query_name |-> qname, variables |-> vars,
     msg |-> <<>>]

\* get_gene_info without the check on the identifiers.
get_gene_infoAnyIdentifier(gene_id, gene_symbol, dataset, reference_genome) ==
    IF dataset /= "gnomad_r4"
    THEN Reject("Only v4 is supported for gene info.")
    ELSE IF reference_genome /= "GRCh38"
    THEN Reject("Only GRCh38 is supported for gene info.")
    ELSE Dispatch("gene",
                  "dataset" :> dataset
                  @@ "reference_genome" :> reference_genome
                  @@ "gene_id" :> gene_id
                  @@ "gene_symbol" :> gene_symbol)

get_gene_info(gene_id, gene_symbol, dataset, reference_genome) ==
    IF dataset /= "gnomad_r4"
    THEN Reject("Only v4 is supported for gene info.")
    ELSE IF reference_genome /= "GRCh38"
    THEN Reject("Only GRCh38 is supported for gene info.")
    ELSE IF ~Truthy(gene_id) /\ ~Truthy(gene_symbol)
    THEN Reject("Either gene_id or gene_symbol must be provided.")
    ELSE Dispatch("gene",
                  "dataset" :> dataset
                  @@ "reference_genome" :> reference_genome
                  @@ "gene_id" :> gene_id
                  @@ "gene_symbol" :> gene_symbol)

search_for_genes(dataset, reference_genome, query) ==
    Dispatch("gene_search",
             "dataset" :> dataset
             @@ "reference_genome" :> reference_genome
             @@ "query" :> query)

get_region_info(reference_genome, chrom, start, stop, dataset) ==
    IF dataset /= "gnomad_r4"
    THEN Reject("Only v4 is supported for region info.")
    ELSE IF reference_genome /= "GRCh38"
    THEN Reject("Only GRCh38 is supported for region info.")
    ELSE Dispatch("region",
                  "dataset" :> dataset
                  @@ "reference_genome" :> reference_genome
                  @@ "chrom" :> chrom
                  @@ "start" :> start
                  @@ "stop" :> stop)

get_variant_info(dataset, reference_genome, variantId) ==
    Dispatch("variant",
             "dataset" :> dataset
             @@ "reference_genome" :> reference_genome
             @@ "variantId" :> variantId)

get_clinvar_variant_info(dataset, reference_genome, variant_id) ==
    Dispatch("clinvar_variant",
             "dataset" :> dataset
             @@ "reference_genome" :> reference_genome
             @@ "variant_id" :> variant_id)

get_mitochondrial_variant_info(reference_genome, variant_id, dataset) ==
    IF dataset /= "gnomad_r4"
    THEN Reject("Only v4 is supported for mitochondrial variant info.")
    ELSE IF reference_genome /= "GRCh38"
    THEN Reject("Only GRCh38 is supported for mitochondrial variant info.")
    ELSE Dispatch("mitochondrial_variant",
                  "dataset" :> dataset
                  @@ "reference_genome" :> reference_genome
                  @@ "variant_id" :> variant_id)

get_structural_variant_info(dataset, reference_genome, variantId) ==
    Dispatch("structural_variant",
             "dataset" :> dataset
             @@ "reference_genome" :> reference_genome
             @@ "variantId" :> variantId)

get_copy_number_variant_info(reference_genome, variantId, dataset) ==
    IF dataset /= "gnomad_cnv_r4"
    THEN Reject("Only v4 is supported for copy number variant info.")
    ELSE IF reference_genome /= "GRCh38"
    THEN Reject("Only GRCh38 is supported for copy number variant info.")
    ELSE Dispatch("copy_number_variant",
                  "dataset" :> dataset
                  @@ "reference_genome" :> reference_genome
                  @@ "variantId" :> variantId)

search_for_variants(dataset, reference_genome, query) ==
    Dispatch("variant_search",
             "dataset" :> dataset
             @@ "reference_genome" :> reference_genome
             @@ "query" :> query)

\* The only check is the one on the dataset.
get_str_info(reference_genome, id, dataset) ==
    IF dataset /= "gnomad_r4"
    THEN Reject("Only v4 is supported for STR info.")
    ELSE Dispatch("short_tandem_repeat",
                  "dataset" :> dataset
                  @@ "reference_genome" :> reference_genome
                  @@ "id" :> id)

\* get_variant_liftover without the check that rejects two identifiers.
get_variant_liftoverBoth(reference_genome, source_variant_id, liftover_variant_id, dataset) ==
    IF dataset /= "gnomad_r2_1"
    THEN Reject("Only v2 is supported for liftover.")
    ELSE IF Truthy(source_variant_id) /\ reference_genome /= "GRCh37"
    THEN Reject("Source variant ID must be on GRCh37.")
    ELSE IF ~Truthy(source_variant_id) /\ Truthy(liftover_variant_id)
            /\ reference_genome /= "GRCh38"
    THEN Reject("Lifted over variant ID must be on GRCh38.")
    ELSE IF ~Truthy(source_variant_id) /\ ~Truthy(liftover_variant_id)
    THEN Reject("Either source_variant_id or liftover_variant_id must be provided.")
    ELSE Dispatch("liftover",
                  "dataset" :> dataset
                  @@ "reference_genome" :> reference_genome
                  @@ "source_variant_id" :> source_variant_id
                  @@ "liftover_variant_id" :> liftover_variant_id)

get_variant_liftover(reference_genome, source_variant_id, liftover_variant_id, dataset) ==
    IF dataset /= "gnomad_r2_1"
    THEN Reject("Only v2 is supported for liftover.")
    ELSE IF Truthy(source_variant_id) /\ Truthy(liftover_variant_id)
    THEN Reject("Only one of source_variant_id or liftover_variant_id must be provided.")
    ELSE IF Truthy(source_variant_id) /\ reference_genome /= "GRCh37"
    THEN Reject("Source variant ID must be on GRCh37.")
    ELSE IF ~Truthy(source_variant_id) /\ Truthy(liftover_variant_id)
            /\ reference_genome /= "GRCh38"
    THEN Reject("Lifted over variant ID must be on GRCh38.")
    ELSE IF ~Truthy(source_variant_id) /\ ~Truthy(liftover_variant_id)
    THEN Reject("Either source_variant_id or liftover_variant_id must be provided.")
    ELSE Dispatch("liftover",
                  "dataset" :> dataset
                  @@ "reference_genome" :> reference_genome
                  @@ "source_variant_id" :> source_variant_id
                  @@ "liftover_variant_id" :> liftover_variant_id)

get_metadata(dataset, reference_genome) ==
    Dispatch("meta",
             "dataset" :> dataset
             @@ "reference_genome" :> reference_genome)

\* ------------------------------------------------------------------------
\* Introspection type descriptors and their rendering
\* ------------------------------------------------------------------------

\* A type descriptor {"kind", "name", "ofType"} is the sequence of its levels,
\* outermost first: the descriptor under "ofType" is the Tail, and None (no
\* descriptor) is the empty sequence.
MaxWrappers == 3

WrapperKinds == {"NON_NULL", "LIST"}

Named(kind, name) == <<[kind |-> kind, name |-> name]>>
Wrap(kind, ofType) == <<[kind |-> kind, name |-> NoneVal]>> \o ofType

\* The text returned by a renderer, as the pieces of the string, or the
\* AttributeError of None.get.
Text(pieces) == [raised |-> FALSE, text |-> pieces]
AttributeError == [raised |-> TRUE, text |-> <<>>]

\* f"{inner}!" and f"[{inner}]" of type_to_gql
GqlNonNull(inner) ==
    IF inner.raised THEN inner ELSE Text(inner.text \o <<"!">>)

\* GqlList without the closing bracket.
GqlListOpen(inner) ==
    IF inner.raised THEN inner ELSE Text(<<"[">> \o inner.text)

GqlList(inner) ==
    IF inner.raised THEN inner ELSE Text(<<"[">> \o inner.text \o <<"]">>)

\* schema2query.type_to_gql(type_info)
RECURSIVE type_to_gql(_)
type_to_gql(type_info) ==
    IF type_info = <<>> THEN AttributeError
    ELSE LET kind == Head(type_info).kind
             name == Head(type_info).name
         IN  IF kind = "NON_NULL" THEN GqlNonNull(type_to_gql(Tail(type_info)))
             ELSE IF kind = "LIST" THEN GqlList(type_to_gql(Tail(type_info)))
             ELSE IF Truthy(name) THEN Text(<<name>>)
             ELSE IF Truthy(kind) THEN Text(<<kind>>)
             ELSE Text(<<"Unknown">>)

\* f"{inner}!" and f"[{inner}]" of _type_to_string
StringNonNull(inner) == Text(inner.text \o <<"!">>)
StringList(inner) == Text(<<"[">> \o inner.text \o <<"]">>)

\* SchemaAnalyzer._type_to_string(type_info)
RECURSIVE _type_to_string(_)
_type_to_string(type_info) ==
    IF type_info = <<>> THEN Text(<<"unknown">>)
    ELSE LET kind == Head(type_info).kind
             name == Head(type_info).name
         IN  IF kind = "NON_NULL"
             THEN StringNonNull(_type_to_string(Tail(type_info)))
             ELSE IF kind = "LIST"
             THEN StringList(_type_to_string(Tail(type_info)))
             ELSE IF Truthy(name) THEN Text(<<name>>)
             ELSE IF Truthy(kind) THEN Text(<<kind>>)
             ELSE Text(<<"unknown">>)

\* What _extract_inner_type gives: a type name or None, or the TypeError of
\* `"name" in None`.
InnerType(name) == [raised |-> FALSE, name |-> name]
TypeErrorOfNone == [raised |-> TRUE, name |-> NoneVal]

\* SchemaAnalyzer._extract_inner_type(type_info): the first truthy name on
\* the way down the ofType chain; None when the chain ends (ofType missing
\* or falsy) before a name is found.
RECURSIVE _extract_inner_type(_)
_extract_inner_type(type_info) ==
    IF type_info = <<>> THEN TypeErrorOfNone
    ELSE IF Truthy(Head(type_info).name) THEN InnerType(Head(type_info).name)
    ELSE IF Tail(type_info) = <<>> THEN InnerType(NoneVal)
    ELSE _extract_inner_type(Tail(type_info))

\* ------------------------------------------------------------------------
\* State
\* ------------------------------------------------------------------------

VARIABLES
    all_params,        \* main: the ordered parameter records
    i,                 \* main: index of the record being processed
    pc,                \* position in main / run_query_with_metadata / run_query
    query_name,        \* qname passed down
    out_path,          \* main: output file of the current record
    variables,         \* the caller's variables dict (one object passed down)
    request_variables, \* run_query_with_metadata: variables.copy()
    version,           \* run_query local
    dataset,           \* run_query local
    reference_genome,  \* run_query local
    query_str,         \* run_query local: text read from the document
    outcome,           \* how run_query ended
    result,            \* envelope returned by run_query_with_metadata
    steps,             \* dispatcher states entered by the current dispatch
    sent,              \* transport executions started by the current dispatch
    written,           \* main: the json.dump writes so far, in order
    doc_store,         \* query documents on disk
    loop_running,      \* the caller runs inside a running event loop
    nest_applied,      \* nest_asyncio.apply() was called in this process
    tool,              \* server: name of the tool function called
    tool_args,         \* server: the arguments of the tool call
    tool_outcome,      \* server: how the tool call ended
    type_input,        \* type rendering: the introspection type descriptor
    gql,               \* schema2query: what type_to_gql returned
    type_string,       \* SchemaAnalyzer: what _type_to_string returned
    types_map,         \* SchemaAnalyzer.types_map
    root_type,         \* type name of the top-level derivation call
    stack,             \* call stack of get_required_fields_for_type
    visited,           \* the visited set object shared by one derivation
    returned,          \* fields returned by the top-level derivation call
    query_index,       \* generate_query_field_map: position in the Query fields
    query_field_map,   \* generate_query_field_map: the entries written so far
    running,           \* which of two concurrent dispatches holds the locals
    parked             \* the locals of the dispatch that is suspended

vars == <<all_params, i, pc, query_name, out_path, variables,
          request_variables, version, dataset, reference_genome, query_str,
          outcome, result, steps, sent, written, doc_store, loop_running,
          nest_applied, tool, tool_args, tool_outcome, type_input, gql,
          type_string, types_map, root_type, stack, visited, returned,
          query_index, query_field_map, running, parked>>

\* State of the tool functions of server.py.
facade == <<tool, tool_args, tool_outcome>>

\* State of the two type renderers.
rendering == <<type_input, gql, type_string>>

\* State of one SchemaAnalyzer field derivation.
analyzer == <<types_map, root_type, stack, visited, returned, query_index,
              query_field_map>>

\* State of the interleaving of two dispatches.
scheduler == <<running, parked>>

\* State of main, run_query_with_metadata and run_query.
dispatcher == <<all_params, i, pc, query_name, out_path, variables,
                request_variables, version, dataset, reference_genome,
                query_str, outcome, result, steps, sent, written, doc_store,
                loop_running, nest_applied>>

env == <<all_params, doc_store, loop_running>>

locals == <<version, dataset, reference_genome, query_str>>

\* ------------------------------------------------------------------------
\* Inputs
\* ------------------------------------------------------------------------

\* Marks a key the caller leaves out of the dict (never a dict value).
Absent == "<absent>"

VersionInputs == {Absent, NoneVal, "v2", "v3", "v4", "v5"}

DatasetInputs == {Absent, "", "unknown_ds"} \cup KnownDatasets

GenomeInputs == {Absent, "GRCh37", "GRCh38", "hg19"}

QueryNameInputs == AllQueryNames \cup {"bogus"}

\* One parameter record: query_name, the three hints that are present, a
\* query-specific variable, and the output file name when given.
MkRecord(q, ver, ds, rg, file) ==
    LET full == [k \in {"query_name", "version", "dataset",
                        "reference_genome", "variantId", "_output_file"} |->
                    CASE k = "query_name"       -> q
                      [] k = "version"          -> ver
                      [] k = "dataset"          -> ds
                      [] k = "reference_genome" -> rg
                      [] k = "variantId"        -> "1-55051215-G-GA"
                      [] k = "_output_file"     -> file]
    IN  [k \in {x \in DOMAIN full : full[x] /= Absent} |-> full[k]]

\* Every single call: all combinations of the hints and query names.
CallRecords ==
    {MkRecord(q, ver, ds, rg, Absent) :
        q \in QueryNameInputs, ver \in VersionInputs,
        ds \in DatasetInputs, rg \in GenomeInputs}

\* Records of a batch: one per way a dispatch can end.
BatchRecords ==
    { MkRecord("variant", Absent, "gnomad_r2_1", "GRCh37", "variant.json"),
      MkRecord("meta", Absent, Absent, "GRCh38", Absent),
      MkRecord("region", Absent, "gnomad_r2_1", "GRCh37", "region.json"),
      MkRecord("variant", "v2", "gnomad_r4", "GRCh38", "mismatch.json"),
      MkRecord("variant", Absent, "unknown_ds", Absent, "unknown.json"),
      MkRecord("gene", "v5", Absent, "GRCh38", "gene.json") }

\* Sequences of length 1..n over S.
SeqsUpTo(S, n) == UNION {[1..m -> S] : m \in 1..n}

\* What one started transport execution does.
TransportOutcomes == {"ok", "RuntimeError", "TransportError"}

\* ------------------------------------------------------------------------
\* Initial states
\* ------------------------------------------------------------------------

\* The dispatch runs alone: no other dispatch is suspended.
NoParked == [pc |-> "NONE"]
NoOtherDispatch ==
    /\ running = 1
    /\ parked = NoParked

\* No tool of server.py is being called.
NoToolCall ==
    /\ tool = ""
    /\ tool_args = EmptyMap
    /\ tool_outcome = NoOutcome

\* No type descriptor is being rendered.
NoRendering ==
    /\ type_input = <<>>
    /\ gql = [raised |-> FALSE, text |-> <<>>]
    /\ type_string = [raised |-> FALSE, text |-> <<>>]

\* No SchemaAnalyzer derivation is in progress.
NoDerivation ==
    /\ types_map = EmptyMap
    /\ root_type = NoneVal
    /\ stack = <<>>
    /\ visited = {}
    /\ returned = <<>>
    /\ query_index = 0
    /\ query_field_map = <<>>

InitWith(lists) ==
    /\ NoOtherDispatch
    /\ NoToolCall
    /\ NoRendering
    /\ NoDerivation
    /\ all_params \in lists
    /\ doc_store \in StoreOptions
    /\ loop_running \in BOOLEAN
    /\ nest_applied = FALSE
    /\ i = 1
    /\ pc = "MAIN"
    /\ query_name = ""
    /\ out_path = <<>>
    /\ variables = EmptyMap
    /\ request_variables = EmptyMap
    /\ version = NoneVal
    /\ dataset = NoneVal
    /\ reference_genome = NoneVal
    /\ query_str = <<>>
    /\ outcome = NoOutcome
    /\ result = NoEnvelope
    /\ steps = <<>>
    /\ sent = <<>>
    /\ written = <<>>

\* One call of a tool or of run_query_with_metadata.
Init == InitWith({<<r>> : r \in CallRecords})

\* A batch of up to MaxRecords records.
InitBatch == InitWith(SeqsUpTo(BatchRecords, MaxRecords))

\* Arguments that have a default and may be left out of a tool call.
OptionalArgs ==
    {"gene_id", "gene_symbol", "dataset", "reference_genome",
     "source_variant_id", "liftover_variant_id"}

ToolDatasetInputs == KnownDatasets \cup {"unknown_ds"}
ToolGenomeInputs == {"GRCh37", "GRCh38", "hg19"}

\* For every tool, the argument combinations it is called with.  Absent marks
\* an optional argument the caller leaves out.
ToolArgSets ==
    [get_gene_info |->
        [gene_id : {Absent, "", "ENSG00000169174"},
         gene_symbol : {Absent, "", "PCSK9"},
         dataset : ToolDatasetInputs \cup {Absent},
         reference_genome : ToolGenomeInputs \cup {Absent}],
     search_for_genes |->
        [dataset : ToolDatasetInputs, reference_genome : ToolGenomeInputs,
         query : {"PCSK9"}],
     get_region_info |->
        [reference_genome : ToolGenomeInputs, chrom : {"1"},
         start : {55505221}, stop : {55530525},
         dataset : ToolDatasetInputs \cup {Absent}],
     get_variant_info |->
        [dataset : ToolDatasetInputs, reference_genome : ToolGenomeInputs,
         variantId : {"1-55516888-G-GA"}],
     get_clinvar_variant_info |->
        [dataset : ToolDatasetInputs, reference_genome : ToolGenomeInputs,
         variant_id : {"1-55516888-G-GA"}],
     get_mitochondrial_variant_info |->
        [reference_genome : ToolGenomeInputs, variant_id : {"M-8602-T-C"},
         dataset : ToolDatasetInputs \cup {Absent}],
     get_structural_variant_info |->
        [dataset : ToolDatasetInputs, reference_genome : ToolGenomeInputs,
         variantId : {"DUP_2_5708"}],
     get_copy_number_variant_info |->
        [reference_genome : ToolGenomeInputs, variantId : {"85070__DUP"},
         dataset : ToolDatasetInputs \cup {Absent}],
     search_for_variants |->
        [dataset : ToolDatasetInputs, reference_genome : ToolGenomeInputs,
         query : {"rs11591147"}],
     get_str_info |->
        [reference_genome : ToolGenomeInputs, id : {"ATXN1"},
         dataset : ToolDatasetInputs \cup {Absent}],
     get_variant_liftover |->
        [reference_genome : ToolGenomeInputs,
         source_variant_id : {Absent, "", "1-55516888-G-GA"},
         liftover_variant_id : {Absent, "", "1-55051215-G-GA"},
         dataset : ToolDatasetInputs \cup {Absent}],
     get_metadata |->
        [dataset : ToolDatasetInputs, reference_genome : ToolGenomeInputs]]

\* The keyword arguments of a call: the optional ones left out are dropped.
DropAbsent(a) ==
    [k \in {x \in DOMAIN a : ~(x \in OptionalArgs /\ a[x] = Absent)} |-> a[k]]

ToolCalls ==
    UNION { {[tool |-> t, args |-> DropAbsent(a)] : a \in ToolArgSets[t]} :
            t \in DOMAIN ToolArgSets }

\* ------------------------------------------------------------------------
\* tests: the parameter lists and the tool of each query name
\* ------------------------------------------------------------------------

\* tests/input/test_params_v2.py
ALL_V2_TEST_PARAMS ==
    <<
    ( "query_name" :> "variant"
        @@ "variantId" :> "12-112241766-G-A"
        @@ "dataset" :> "gnomad_r2_1"
        @@ "reference_genome" :> "GRCh37"
        @@ "_output_file" :> "variant.json" ),
    ( "query_name" :> "gene_search"
        @@ "query" :> "PCSK9"
        @@ "dataset" :> "gnomad_r2_1"
        @@ "reference_genome" :> "GRCh37"
        @@ "_output_file" :> "search_for_genes_by_symbol.json" ),
    ( "query_name" :> "clinvar_variant"
        @@ "variant_id" :> "12-112241766-G-A"
        @@ "dataset" :> "gnomad_r2_1"
        @@ "reference_genome" :> "GRCh37"
        @@ "_output_file" :> "clinvar_variant.json" ),
    ( "query_name" :> "structural_variant"
        @@ "variantId" :> "DEL_19_169804"
        @@ "dataset" :> "gnomad_sv_r2_1"
        @@ "reference_genome" :> "GRCh37"
        @@ "_output_file" :> "structural_variant.json" ),
    ( "query_name" :> "liftover"
        @@ "source_variant_id" :> "12-112241766-G-A"
        @@ "dataset" :> "gnomad_r2_1"
        @@ "reference_genome" :> "GRCh37"
        @@ "_output_file" :> "get_variant_liftover_source_variant_id.json" ),
    ( "query_name" :> "liftover"
        @@ "liftover_variant_id" :> "12-111803962-G-A"
        @@ "dataset" :> "gnomad_r2_1"
        @@ "reference_genome" :> "GRCh38"
        @@ "_output_file" :> "get_variant_liftover_liftover_variant_id.json" ),
    ( "query_name" :> "variant_search"
        @@ "query" :> "12-112241766-G-A"
        @@ "dataset" :> "gnomad_r2_1"
        @@ "reference_genome" :> "GRCh37"
        @@ "_output_file" :> "variant_search.json" ),
    ( "query_name" :> "meta"
        @@ "dataset" :> "gnomad_r2_1"
        @@ "reference_genome" :> "GRCh37"
        @@ "_output_file" :> "meta.json" )
    >>

\* tests/input/test_params_v3.py
ALL_V3_TEST_PARAMS ==
    <<
    ( "query_name" :> "gene_search"
        @@ "query" :> "PCSK9"
        @@ "dataset" :> "gnomad_r3"
        @@ "reference_genome" :> "GRCh38"
        @@ "_output_file" :> "search_for_genes_query_only.json" ),
    ( "query_name" :> "gene_search"
        @@ "query" :> "PCSK9"
        @@ "dataset" :> "gnomad_r3"
        @@ "reference_genome" :> "GRCh38"
        @@ "_output_file" :> "search_for_genes_query_reference_genome.json" ),
    ( "query_name" :> "gene_search"
        @@ "query" :> "PCSK9"
        @@ "dataset" :> "gnomad_r3"
        @@ "reference_genome" :> "GRCh38"
        @@ "_output_file" :> "search_for_genes_query_dataset.json" ),
    ( "query_name" :> "gene_search"
        @@ "query" :> "PCSK9"
        @@ "dataset" :> "gnomad_r3"
        @@ "reference_genome" :> "GRCh38"
        @@ "_output_file" :> "search_for_genes_query_reference_genome_dataset.json" ),
    ( "query_name" :> "variant"
        @@ "variantId" :> "1-55051215-G-GA"
        @@ "dataset" :> "gnomad_r3"
        @@ "reference_genome" :> "GRCh38"
        @@ "_output_file" :> "get_variant_info_variant_id.json" ),
    ( "query_name" :> "clinvar_variant"
        @@ "variant_id" :> "19-11105588-G-T"
        @@ "dataset" :> "gnomad_r3"
        @@ "reference_genome" :> "GRCh38"
        @@ "_output_file" :> "clinvar_variant.json" ),
    ( "query_name" :> "variant_search"
        @@ "query" :> "1-55051215-G-GA"
        @@ "dataset" :> "gnomad_r3"
        @@ "reference_genome" :> "GRCh38"
        @@ "_output_file" :> "variant_search.json" ),
    ( "query_name" :> "meta"
        @@ "dataset" :> "gnomad_r3"
        @@ "reference_genome" :> "GRCh38"
        @@ "_output_file" :> "meta.json" )
    >>

\* tests/input/test_params_v4.py
ALL_V4_TEST_PARAMS ==
    <<
    ( "query_name" :> "gene"
        @@ "gene_symbol" :> "PCSK9"
        @@ "dataset" :> "gnomad_r4"
        @@ "reference_genome" :> "GRCh38"
        @@ "_output_file" :> "get_gene_info_by_symbol.json" ),
    ( "query_name" :> "gene"
        @@ "gene_id" :> "ENSG00000139618"
        @@ "dataset" :> "gnomad_r4"
        @@ "reference_genome" :> "GRCh38"
        @@ "_output_file" :> "get_gene_info_by_id.json" ),
    ( "query_name" :> "gene_search"
        @@ "query" :> "PCSK9"
        @@ "dataset" :> "gnomad_r4"
        @@ "reference_genome" :> "GRCh38"
        @@ "_output_file" :> "search_for_genes_query_only.json" ),
    ( "query_name" :> "gene_search"
        @@ "query" :> "PCSK9"
        @@ "dataset" :> "gnomad_r4"
        @@ "reference_genome" :> "GRCh38"
        @@ "_output_file" :> "search_for_genes_query_reference_genome.json" ),
    ( "query_name" :> "gene_search"
        @@ "query" :> "PCSK9"
        @@ "dataset" :> "gnomad_r4"
        @@ "reference_genome" :> "GRCh38"
        @@ "_output_file" :> "search_for_genes_query_dataset.json" ),
    ( "query_name" :> "gene_search"
        @@ "query" :> "PCSK9"
        @@ "dataset" :> "gnomad_r4"
        @@ "reference_genome" :> "GRCh38"
        @@ "_output_file" :> "search_for_genes_query_reference_genome_dataset.json" ),
    ( "query_name" :> "region"
        @@ "chrom" :> "1"
        @@ "start" :> 55051000
        @@ "stop" :> 55052000
        @@ "dataset" :> "gnomad_r4"
        @@ "reference_genome" :> "GRCh38"
        @@ "_output_file" :> "region.json" ),
    ( "query_name" :> "variant"
        @@ "variantId" :> "1-55051215-G-GA"
        @@ "dataset" :> "gnomad_r4"
        @@ "reference_genome" :> "GRCh38"
        @@ "_output_file" :> "get_variant_info_variant_id.json" ),
    ( "query_name" :> "clinvar_variant"
        @@ "variant_id" :> "19-11105588-G-T"
        @@ "dataset" :> "gnomad_r4"
        @@ "reference_genome" :> "GRCh38"
        @@ "_output_file" :> "clinvar_variant.json" ),
    ( "query_name" :> "mitochondrial_variant"
        @@ "variant_id" :> "M-8602-T-C"
        @@ "dataset" :> "gnomad_r4"
        @@ "reference_genome" :> "GRCh38"
        @@ "_output_file" :> "mitochondrial_variant.json" ),
    ( "query_name" :> "structural_variant"
        @@ "variantId" :> "DEL_CHR19_354EAFA6"
        @@ "dataset" :> "gnomad_sv_r4"
        @@ "reference_genome" :> "GRCh38"
        @@ "_output_file" :> "structural_variant.json" ),
    ( "query_name" :> "copy_number_variant"
        @@ "variantId" :> "18714__DUP"
        @@ "dataset" :> "gnomad_cnv_r4"
        @@ "reference_genome" :> "GRCh38"
        @@ "_output_file" :> "copy_number_variant.json" ),
    ( "query_name" :> "variant_search"
        @@ "query" :> "1-55051215-G-GA"
        @@ "dataset" :> "gnomad_r4"
        @@ "reference_genome" :> "GRCh38"
        @@ "_output_file" :> "variant_search.json" ),
    ( "query_name" :> "short_tandem_repeat"
        @@ "id" :> "ATXN1"
        @@ "dataset" :> "gnomad_r4"
        @@ "reference_genome" :> "GRCh38"
        @@ "_output_file" :> "short_tandem_repeat.json" ),
    ( "query_name" :> "meta"
        @@ "dataset" :> "gnomad_r4"
        @@ "reference_genome" :> "GRCh38"
        @@ "_output_file" :> "meta.json" )
    >>

\* The prefix each test function puts before the output file name; it
\* names the version of the list the test runs over.
TestLists ==
    [v2 |-> ALL_V2_TEST_PARAMS, v3 |-> ALL_V3_TEST_PARAMS,
     v4 |-> ALL_V4_TEST_PARAMS]

\* QUERY_NAME_TO_FUNC with structural_variant mapped to the copy number tool.
QUERY_NAME_TO_FUNCSwapped ==
    [gene |-> "get_gene_info",
     gene_search |-> "search_for_genes",
     region |-> "get_region_info",
     variant |-> "get_variant_info",
     clinvar_variant |-> "get_clinvar_variant_info",
     mitochondrial_variant |-> "get_mitochondrial_variant_info",
     structural_variant |-> "get_copy_number_variant_info",
     copy_number_variant |-> "get_copy_number_variant_info",
     variant_search |-> "search_for_variants",
     liftover |-> "get_variant_liftover",
     short_tandem_repeat |-> "get_str_info",
     meta |-> "get_metadata"]

QUERY_NAME_TO_FUNC ==
    [gene |-> "get_gene_info",
     gene_search |-> "search_for_genes",
     region |-> "get_region_info",
     variant |-> "get_variant_info",
     clinvar_variant |-> "get_clinvar_variant_info",
     mitochondrial_variant |-> "get_mitochondrial_variant_info",
     structural_variant |-> "get_structural_variant_info",
     copy_number_variant |-> "get_copy_number_variant_info",
     variant_search |-> "search_for_variants",
     liftover |-> "get_variant_liftover",
     short_tandem_repeat |-> "get_str_info",
     meta |-> "get_metadata"]

\* The parameters of each tool function, and those without a default.
Parameters ==
    [t \in DOMAIN ToolArgSets |-> DOMAIN (CHOOSE a \in ToolArgSets[t] : TRUE)]

Required ==
    [t \in DOMAIN ToolArgSets |->
        CASE t = "get_gene_info" -> {}
          [] t = "get_variant_liftover" -> {"reference_genome"}
          [] t \in {"get_region_info", "get_mitochondrial_variant_info",
                    "get_copy_number_variant_info", "get_str_info"} ->
                Parameters[t] \ {"dataset"}
          [] OTHER -> Parameters[t]]

\* The parameters of each tool function in the order of its signature.
Signature ==
    [get_gene_info |->
        <<"gene_id", "gene_symbol", "dataset", "reference_genome">>,
     search_for_genes |-> <<"dataset", "reference_genome", "query">>,
     get_region_info |->
        <<"reference_genome", "chrom", "start", "stop", "dataset">>,
     get_variant_info |-> <<"dataset", "reference_genome", "variantId">>,
     get_clinvar_variant_info |->
        <<"dataset", "reference_genome", "variant_id">>,
     get_mitochondrial_variant_info |->
        <<"reference_genome", "variant_id", "dataset">>,
     get_structural_variant_info |->
        <<"dataset", "reference_genome", "variantId">>,
     get_copy_number_variant_info |->
        <<"reference_genome", "variantId", "dataset">>,
     search_for_variants |-> <<"dataset", "reference_genome", "query">>,
     get_str_info |-> <<"reference_genome", "id", "dataset">>,
     get_variant_liftover |->
        <<"reference_genome", "source_variant_id", "liftover_variant_id",
          "dataset">>,
     get_metadata |-> <<"dataset", "reference_genome">>]

\* One record of one of the three lists, run by the test of its list.
InitTests ==
    /\ NoOtherDispatch
    /\ \E v \in DOMAIN TestLists :
         /\ all_params = TestLists[v]
         /\ i \in 1..Len(TestLists[v])
         /\ out_path = <<v, "_">>
    /\ pc = "TEST"
    /\ NoToolCall
    /\ NoRendering
    /\ NoDerivation
    /\ doc_store \in StoreOptions
    /\ loop_running \in BOOLEAN
    /\ nest_applied = FALSE
    /\ query_name = ""
    /\ variables = EmptyMap
    /\ request_variables = EmptyMap
    /\ version = NoneVal
    /\ dataset = NoneVal
    /\ reference_genome = NoneVal
    /\ query_str = <<>>
    /\ outcome = NoOutcome
    /\ result = NoEnvelope
    /\ steps = <<>>
    /\ sent = <<>>
    /\ written = <<>>

\* One call of one tool of server.py.
InitTools ==
    /\ NoOtherDispatch
    /\ \E c \in ToolCalls :
         /\ tool = c.tool
         /\ tool_args = c.args
    /\ tool_outcome = NoOutcome
    /\ NoRendering
    /\ NoDerivation
    /\ all_params = <<>>
    /\ doc_store \in StoreOptions
    /\ loop_running \in BOOLEAN
    /\ nest_applied = FALSE
    /\ i = 1
    /\ pc = "TOOL"
    /\ query_name = ""
    /\ out_path = <<>>
    /\ variables = EmptyMap
    /\ request_variables = EmptyMap
    /\ version = NoneVal
    /\ dataset = NoneVal
    /\ reference_genome = NoneVal
    /\ query_str = <<>>
    /\ outcome = NoOutcome
    /\ result = NoEnvelope
    /\ steps = <<>>
    /\ sent = <<>>
    /\ written = <<>>

\* ------------------------------------------------------------------------
\* Control flow of run_query
\* ------------------------------------------------------------------------

\* The statements of run_query in source order.
StepOrder == <<"RESOLVE_VERSION", "RESOLVE_DATASET_AND_GENOME",
               "VALIDATE_QUERY_SUPPORT", "VALIDATE_CONSISTENCY",
               "LOAD_DOCUMENT", "EXECUTE">>

\* NextStep with the document lookup left out of the sequence.
NextStepSkipLoad(step) ==
    IF step = "VALIDATE_CONSISTENCY" THEN "EXECUTE"
    ELSE LET n == CHOOSE k \in 1..Len(StepOrder) : StepOrder[k] = step
         IN  StepOrder[n + 1]

\* The statement that follows a step that did not return or raise.
NextStep(step) ==
    LET n == CHOOSE k \in 1..Len(StepOrder) : StepOrder[k] = step
    IN  StepOrder[n + 1]

\* ------------------------------------------------------------------------
\* main: the batch loop
\* ------------------------------------------------------------------------

\* params = param.copy() with "query_name" and "_output_file" popped.
CallerVariables(param) == Pop(Pop(param, "query_name"), "_output_file")

\* params.pop("_output_file", f"{qname}.json") joined to the output directory.
OutPath(param) ==
    <<"output_dir">> \o
    (IF "_output_file" \in DOMAIN param
     THEN <<param["_output_file"]>>
     ELSE <<param["query_name"], ".json">>)

\* NextIndex advancing by two, so that every other record is skipped.
NextIndexSkipping(n) == n + 2

\* The loop variable after one iteration.
NextIndex(n) == n + 1

\* Top of the loop body: take record i and call run_query_with_metadata.
MainNext ==
    /\ pc = "MAIN"
    /\ i <= Len(all_params)
    /\ query_name' = all_params[i]["query_name"]
    /\ out_path' = OutPath(all_params[i])
    /\ variables' = CallerVariables(all_params[i])
    /\ request_variables' = EmptyMap
    /\ version' = NoneVal
    /\ dataset' = NoneVal
    /\ reference_genome' = NoneVal
    /\ query_str' = <<>>
    /\ outcome' = NoOutcome
    /\ result' = NoEnvelope
    /\ steps' = <<>>
    /\ sent' = <<>>
    /\ pc' = "ENTER"
    /\ UNCHANGED <<facade, rendering, analyzer>>
    /\ UNCHANGED <<scheduler, env, i, written, nest_applied>>

\* json.dump(result, outf) and the next iteration.
MainWrite ==
    /\ pc = "WRITE"
    /\ written' = Append(written, [path |-> out_path, content |-> result])
    /\ i' = NextIndex(i)
    /\ pc' = "MAIN"
    /\ UNCHANGED <<facade, rendering, analyzer>>
    /\ UNCHANGED <<scheduler, env, query_name, out_path, variables, request_variables,
                   locals, outcome, result, steps, sent, nest_applied>>

\* The list is exhausted.
MainExit ==
    /\ pc = "MAIN"
    /\ i > Len(all_params)
    /\ pc' = "HALT"
    /\ UNCHANGED <<facade, rendering, analyzer>>
    /\ UNCHANGED <<scheduler, env, i, query_name, out_path, variables, request_variables,
                   locals, outcome, result, steps, sent, written, nest_applied>>

\* ------------------------------------------------------------------------
\* run_query_with_metadata
\* ------------------------------------------------------------------------

\* Caught for a handler written as `except ValueError`.
CaughtValueErrorOnly(type) == type = "ValueError"

\* MakeEnvelope echoing variables with the dataset default filled in.
MakeEnvelopeCompleted(request_query, req_variables, response) ==
    [endpoint |-> GNOMAD_API_URL,
     request_query |-> request_query,
     request_variables |->
        [k \in DOMAIN req_variables \cup {"dataset"} |->
            IF k \in DOMAIN req_variables THEN req_variables[k]
            ELSE "gnomad_r4"],
     response |-> response]

\* `except Exception`: every exception class of the model is caught.
Caught(type) == type \in ExceptionTypes

\* The returned dict.
MakeEnvelope(request_query, req_variables, response) ==
    [endpoint |-> GNOMAD_API_URL,
     request_query |-> request_query,
     request_variables |-> req_variables,
     response |-> response]

\* endpoint, request_query, request_variables = variables.copy(); call run_query.
MetadataEnter ==
    /\ pc = "ENTER"
    /\ request_variables' = variables
    /\ pc' = StepOrder[1]
    /\ UNCHANGED <<facade, rendering, analyzer>>
    /\ UNCHANGED <<scheduler, env, i, query_name, out_path, variables, locals, outcome,
                   result, steps, sent, written, nest_applied>>

\* run_query returned or raised: build the envelope, or let an exception
\* that `except Exception` does not catch leave the function.
MetadataReturn ==
    /\ pc = "ENVELOPE"
    /\ IF outcome.kind = "return"
       THEN /\ result' = MakeEnvelope(query_name, request_variables,
                                      outcome.value)
            /\ pc' = "WRITE"
       ELSE IF Caught(outcome.type)
       THEN /\ result' = MakeEnvelope(query_name, request_variables,
                                      ErrorResponse(outcome.msg))
            /\ pc' = "WRITE"
       ELSE /\ result' = result
            /\ pc' = "CRASHED"
    /\ UNCHANGED <<facade, rendering, analyzer>>
    /\ UNCHANGED <<scheduler, env, i, query_name, out_path, variables, request_variables,
                   locals, outcome, steps, sent, written, nest_applied>>

\* ------------------------------------------------------------------------
\* run_query: the dispatcher
\* ------------------------------------------------------------------------

\* VersionMismatch with the comparison dropped.
VersionMismatchNever(ver, detected) == FALSE

\* `if version != detect_version(dataset, reference_genome)`
VersionMismatch(ver, detected) == ver /= detected

\* Backfill replacing the caller's value by the default of the version.
BackfillAlways(value, table, ver) == table[ver]

\* Backfill taking the default of the newest version, whatever was resolved.
BackfillNewest(value, table, ver) ==
    IF Truthy(value) THEN value ELSE table["v4"]

\* A local completed from the caller's value or, when falsy, the default.
Backfill(value, table, ver) == IF Truthy(value) THEN value ELSE table[ver]

\* A hint decides only when it names one of the versions.
HintDecidesWhenValid(hint) == hint \in Versions

\* `if not version:` is skipped: the caller's hint is the version.
HintDecides(hint) == Truthy(hint)

\* version = variables.get('version'); detect it when falsy; a detection
\* failure is returned as {"error": ...}.
ResolveVersion ==
    /\ pc = "RESOLVE_VERSION"
    /\ steps' = Append(steps, "RESOLVE_VERSION")
    /\ LET hint == Get(variables, "version")
           det  == detect_version(Get(variables, "dataset"),
                                  Get(variables, "reference_genome"))
       IN  IF HintDecides(hint)
           THEN /\ version' = hint
                /\ outcome' = outcome
                /\ pc' = NextStep(pc)
           ELSE IF det.raised
           THEN /\ version' = hint
                /\ outcome' = Return(ErrorResponse(VersionErrorMsg))
                /\ pc' = "ENVELOPE"
           ELSE /\ version' = det.value
                /\ outcome' = outcome
                /\ pc' = NextStep(pc)
    /\ UNCHANGED <<facade, rendering, analyzer>>
    /\ UNCHANGED <<scheduler, env, i, query_name, out_path, variables, request_variables,
                   dataset, reference_genome, query_str, result, sent,
                   written, nest_applied>>

\* dataset / reference_genome locals: the caller's value or the version's
\* default; DATASET_MAP[version] raises KeyError for an unknown version, which
\* `except ValueError` does not catch.
ResolveDatasetAndGenome ==
    /\ pc = "RESOLVE_DATASET_AND_GENOME"
    /\ steps' = Append(steps, "RESOLVE_DATASET_AND_GENOME")
    /\ LET ds == Get(variables, "dataset")
           rg == Get(variables, "reference_genome")
       IN  IF ~Truthy(ds) /\ version \notin DOMAIN DATASET_MAP
           THEN /\ dataset' = ds
                /\ reference_genome' = reference_genome
                /\ outcome' = Raise("KeyError", KeyErrorMsg(version))
                /\ pc' = "ENVELOPE"
           ELSE IF ~Truthy(rg) /\ version \notin DOMAIN REF_GENOME_MAP
           THEN /\ dataset' = ds
                /\ reference_genome' = rg
                /\ outcome' = Raise("KeyError", KeyErrorMsg(version))
                /\ pc' = "ENVELOPE"
           ELSE /\ dataset' = Backfill(ds, DATASET_MAP, version)
                /\ reference_genome' = Backfill(rg, REF_GENOME_MAP, version)
                /\ outcome' = outcome
                /\ pc' = NextStep(pc)
    /\ UNCHANGED <<facade, rendering, analyzer>>
    /\ UNCHANGED <<scheduler, env, i, query_name, out_path, variables, request_variables,
                   version, query_str, result, sent, written, nest_applied>>

\* Pick the version's SUPPORTED_QUERIES and test query_name against it.
ValidateQuerySupport ==
    /\ pc = "VALIDATE_QUERY_SUPPORT"
    /\ steps' = Append(steps, "VALIDATE_QUERY_SUPPORT")
    /\ IF version \notin Versions
       THEN /\ outcome' = Raise("ValueError", UnknownVersionMsg(version))
            /\ pc' = "ENVELOPE"
       ELSE IF ~IsSupported(version, query_name)
       THEN /\ outcome' = Raise("ValueError",
                                UnsupportedMsg(query_name, version))
            /\ pc' = "ENVELOPE"
       ELSE /\ outcome' = outcome
            /\ pc' = NextStep(pc)
    /\ UNCHANGED <<facade, rendering, analyzer>>
    /\ UNCHANGED <<scheduler, env, i, query_name, out_path, variables, request_variables,
                   locals, result, sent, written, nest_applied>>

\* Detect the version again from the completed pair and compare.
ValidateConsistency ==
    /\ pc = "VALIDATE_CONSISTENCY"
    /\ steps' = Append(steps, "VALIDATE_CONSISTENCY")
    /\ LET det == detect_version(dataset, reference_genome)
       IN  IF det.raised
           THEN /\ outcome' = Raise("ValueError", det.msg)
                /\ pc' = "ENVELOPE"
           ELSE IF VersionMismatch(version, det.value)
           THEN /\ outcome' = Raise("ValueError",
                                    InconsistentMsg(version, det.value))
                /\ pc' = "ENVELOPE"
           ELSE /\ outcome' = outcome
                /\ pc' = NextStep(pc)
    /\ UNCHANGED <<facade, rendering, analyzer>>
    /\ UNCHANGED <<scheduler, env, i, query_name, out_path, variables, request_variables,
                   locals, result, sent, written, nest_applied>>

\* Build the path, fail when the file does not exist, read it.
LoadDocument ==
    /\ pc = "LOAD_DOCUMENT"
    /\ steps' = Append(steps, "LOAD_DOCUMENT")
    /\ LET query_path == QueryPath(version, query_name)
       IN  IF ~PathExists(doc_store, query_path)
           THEN /\ query_str' = query_str
                /\ outcome' = Raise("ValueError",
                                    <<"Query file not found: ">> \o query_path)
                /\ pc' = "ENVELOPE"
           ELSE /\ query_str' = doc_store[query_path]
                /\ outcome' = outcome
                /\ pc' = NextStep(pc)
    /\ UNCHANGED <<facade, rendering, analyzer>>
    /\ UNCHANGED <<scheduler, env, i, query_name, out_path, variables, request_variables,
                   version, dataset, reference_genome, result, sent,
                   written, nest_applied>>

\* ------------------------------------------------------------------------
\* execute_query_sync / execute_query: the transport call
\* ------------------------------------------------------------------------

\* Arguments of one client.execute_async call.
Execution(document, variable_values) ==
    [document |-> document, variable_values |-> variable_values]

TransportErrorMsg(o) == <<o, " raised by the transport">>

\* RuntimeError(f"Failed to run async query: {e}")
FailedMsg(e) == <<"Failed to run async query: ">> \o e

\* threading.current_thread().name of the thread that runs the dispatch.
ThreadName == "MainThread"

\* The RuntimeError of asyncio.get_event_loop() when the thread has no loop.
NoCurrentLoopMsg ==
    <<"There is no current event loop in thread '", ThreadName, "'.">>

\* What one execution of the document gives to asyncio.run: the response,
\* or the error of the transport, a RuntimeError among them.
RunOutcome(o, document, variable_values) ==
    IF o = "ok" THEN Return(DataResponse(document, variable_values))
    ELSE Raise(o, TransportErrorMsg(o))

\* What one execution of the document gives in the except clause: every
\* exception becomes RuntimeError(f"Failed to run async query: {e}").
FallbackOutcome(o, document, variable_values) ==
    IF o = "ok" THEN Return(DataResponse(document, variable_values))
    ELSE Raise("RuntimeError", FailedMsg(TransportErrorMsg(o)))

\* return execute_query_sync(query_str, variables), first attempt:
\* asyncio.run(execute_query(...)).  Inside a running loop the unpatched
\* asyncio.run raises RuntimeError before the coroutine starts; otherwise
\* the coroutine is handed to the loop, which runs it.
Execute ==
    /\ pc = "EXECUTE"
    /\ steps' = Append(steps, "EXECUTE")
    /\ pc' = IF loop_running /\ ~nest_applied THEN "FALLBACK" ELSE "RUN_SEND"
    /\ UNCHANGED <<facade, rendering, analyzer>>
    /\ UNCHANGED <<scheduler, env, i, query_name, out_path, variables,
                   request_variables, locals, outcome, result, sent, written,
                   nest_applied>>

\* execute_query inside asyncio.run: get_client() and the start of
\* client.execute_async(gql(query_string), variable_values=variables).
ExecuteSend ==
    /\ pc = "RUN_SEND"
    /\ sent' = Append(sent, Execution(query_str, variables))
    /\ pc' = "RUN_AWAIT"
    /\ UNCHANGED <<facade, rendering, analyzer>>
    /\ UNCHANGED <<scheduler, env, i, query_name, out_path, variables,
                   request_variables, locals, outcome, result, steps, written,
                   nest_applied>>

\* The await of the transport inside asyncio.run ends: the response is
\* returned, a RuntimeError enters the except clause, any other error leaves
\* execute_query_sync.
ExecuteAwait ==
    /\ pc = "RUN_AWAIT"
    /\ \E o \in TransportOutcomes :
          /\ outcome' = IF o = "RuntimeError" THEN outcome
                        ELSE RunOutcome(o, query_str, variables)
          /\ pc' = IF o = "RuntimeError" THEN "FALLBACK" ELSE "ENVELOPE"
    /\ UNCHANGED <<facade, rendering, analyzer>>
    /\ UNCHANGED <<scheduler, env, i, query_name, out_path, variables,
                   request_variables, locals, result, steps, sent, written,
                   nest_applied>>

\* except RuntimeError: loop = asyncio.get_event_loop() (raises when no loop
\* is current, which is the case after asyncio.run has run and closed its
\* loop, unless nest_asyncio patched the policy); nest_asyncio.apply() when
\* the loop is running; loop.run_until_complete(execute_query(...)) hands a
\* new execution of the document to the loop.
Fallback ==
    /\ pc = "FALLBACK"
    /\ IF ~loop_running /\ ~nest_applied
       THEN /\ nest_applied' = nest_applied
            /\ outcome' = Raise("RuntimeError", FailedMsg(NoCurrentLoopMsg))
            /\ pc' = "ENVELOPE"
       ELSE /\ nest_applied' = (nest_applied \/ loop_running)
            /\ outcome' = outcome
            /\ pc' = "FALLBACK_SEND"
    /\ UNCHANGED <<facade, rendering, analyzer>>
    /\ UNCHANGED <<scheduler, env, i, query_name, out_path, variables,
                   request_variables, locals, result, steps, sent, written>>

\* execute_query inside loop.run_until_complete: get_client() and the start
\* of client.execute_async.
FallbackSend ==
    /\ pc = "FALLBACK_SEND"
    /\ sent' = Append(sent, Execution(query_str, variables))
    /\ pc' = "FALLBACK_AWAIT"
    /\ UNCHANGED <<facade, rendering, analyzer>>
    /\ UNCHANGED <<scheduler, env, i, query_name, out_path, variables,
                   request_variables, locals, outcome, result, steps, written,
                   nest_applied>>

\* The await of the transport inside loop.run_until_complete ends: the
\* response is returned, every exception becomes RuntimeError.
FallbackAwait ==
    /\ pc = "FALLBACK_AWAIT"
    /\ \E o \in TransportOutcomes :
          outcome' = FallbackOutcome(o, query_str, variables)
    /\ pc' = "ENVELOPE"
    /\ UNCHANGED <<facade, rendering, analyzer>>
    /\ UNCHANGED <<scheduler, env, i, query_name, out_path, variables,
                   request_variables, locals, result, steps, sent, written,
                   nest_applied>>

\* ------------------------------------------------------------------------
\* server.py: the tool call
\* ------------------------------------------------------------------------

\* The value of a parameter: the argument, or the default of the signature.
Arg(a, name, default) == IF name \in DOMAIN a THEN a[name] ELSE default

\* The body of the tool up to its call of run_query_with_metadata.
ToolBody(t, a) ==
    CASE t = "get_gene_info" ->
            get_gene_info(Arg(a, "gene_id", NoneVal),
                          Arg(a, "gene_symbol", NoneVal),
                          Arg(a, "dataset", "gnomad_r4"),
                          Arg(a, "reference_genome", "GRCh38"))
      [] t = "search_for_genes" ->
            search_for_genes(a["dataset"], a["reference_genome"], a["query"])
      [] t = "get_region_info" ->
            get_region_info(a["reference_genome"], a["chrom"], a["start"],
                            a["stop"], Arg(a, "dataset", "gnomad_r4"))
      [] t = "get_variant_info" ->
            get_variant_info(a["dataset"], a["reference_genome"],
                             a["variantId"])
      [] t = "get_clinvar_variant_info" ->
            get_clinvar_variant_info(a["dataset"], a["reference_genome"],
                                     a["variant_id"])
      [] t = "get_mitochondrial_variant_info" ->
            get_mitochondrial_variant_info(a["reference_genome"],
                                           a["variant_id"],
                                           Arg(a, "dataset", "gnomad_r4"))
      [] t = "get_structural_variant_info" ->
            get_structural_variant_info(a["dataset"], a["reference_genome"],
                                        a["variantId"])
      [] t = "get_copy_number_variant_info" ->
            get_copy_number_variant_info(a["reference_genome"],
                                         a["variantId"],
                                         Arg(a, "dataset", "gnomad_cnv_r4"))
      [] t = "search_for_variants" ->
            search_for_variants(a["dataset"], a["reference_genome"],
                                a["query"])
      [] t = "get_str_info" ->
            get_str_info(a["reference_genome"], a["id"],
                         Arg(a, "dataset", "gnomad_r4"))
      [] t = "get_variant_liftover" ->
            get_variant_liftover(a["reference_genome"],
                                 Arg(a, "source_variant_id", NoneVal),
                                 Arg(a, "liftover_variant_id", NoneVal),
                                 Arg(a, "dataset", "gnomad_r2_1"))
      [] t = "get_metadata" ->
            get_metadata(a["dataset"], a["reference_genome"])

\* The tool validates its arguments: it raises, or builds the variables and
\* calls run_query_with_metadata.
ToolCall ==
    /\ pc = "TOOL"
    /\ LET r == ToolBody(tool, tool_args)
       IN  IF r.kind = "raise"
           THEN /\ tool_outcome' = Raise("ValueError", r.msg)
                /\ pc' = "HALT"
                /\ UNCHANGED <<query_name, variables>>
           ELSE /\ query_name' = r.query_name
                /\ variables' = r.variables
                /\ pc' = "ENTER"
                /\ UNCHANGED tool_outcome
    /\ UNCHANGED <<tool, tool_args, rendering, analyzer>>
    /\ UNCHANGED <<scheduler, env, i, out_path, request_variables, locals, outcome,
                   result, steps, sent, written, nest_applied>>

\* return run_query_with_metadata(...)
ToolReturn ==
    /\ pc = "WRITE"
    /\ tool_outcome' = [kind |-> "return", type |-> "", msg |-> <<>>,
                        value |-> result]
    /\ pc' = "HALT"
    /\ UNCHANGED <<tool, tool_args, rendering, analyzer>>
    /\ UNCHANGED <<scheduler, env, i, query_name, out_path, variables,
                   request_variables, locals, outcome, result, steps, sent,
                   written, nest_applied>>

\* ------------------------------------------------------------------------
\* tests/test_server.py: one parametrized test
\* ------------------------------------------------------------------------

\* func(**params) binds: every keyword is a parameter and every parameter
\* without a default is given; otherwise the call raises TypeError.
Binds(func, params) ==
    /\ DOMAIN params \subseteq Parameters[func]
    /\ Required[func] \subseteq DOMAIN params

\* The names of a TypeError message: 'a', 'a' and 'b', 'a', 'b', and 'c'.
RECURSIVE QuotedNames(_)
QuotedNames(names) ==
    IF Len(names) = 1 THEN <<"'", names[1], "'">>
    ELSE IF Len(names) = 2
    THEN <<"'", names[1], "' and '", names[2], "'">>
    ELSE <<"'", names[1], "', ">>
         \o (IF Len(names) = 3
             THEN <<"'", names[2], "', and '", names[3], "'">>
             ELSE QuotedNames(Tail(names)))

\* str(e) of the TypeError of func(**params): an unexpected keyword is
\* reported before missing arguments.  Of several unexpected keywords the
\* first one of the call is named, an order the records here do not keep.
TypeErrorMsgs(func, params) ==
    LET unexpected == DOMAIN params \ Parameters[func]
        missing == SelectSeq(Signature[func],
                             LAMBDA p : p \in Required[func]
                                        /\ p \notin DOMAIN params)
    IN  IF unexpected /= {}
        THEN { <<func, "() got an unexpected keyword argument '", k, "'">> :
                 k \in unexpected }
        ELSE { <<func, "() missing ", ToString(Len(missing)),
                 " required positional argument",
                 IF Len(missing) = 1 THEN "" ELSE "s", ": ">>
               \o QuotedNames(missing) }

\* The test body up to the call: pop query_name and _output_file, look the
\* tool up and call it with the rest as keyword arguments.  A record
\* without query_name, or with one that has no tool, ends the test with a
\* KeyError and nothing is saved.
TestCall ==
    /\ pc = "TEST"
    /\ LET params == all_params[i]
           name == Get(params, "query_name")
           rest == Pop(Pop(params, "query_name"), "_output_file")
       IN  IF name \notin DOMAIN QUERY_NAME_TO_FUNC
           THEN /\ pc' = "CRASHED"
                /\ UNCHANGED <<out_path, facade>>
           ELSE LET func == QUERY_NAME_TO_FUNC[name]
                IN  /\ out_path' = out_path \o
                          (IF "_output_file" \in DOMAIN params
                           THEN <<params["_output_file"]>>
                           ELSE <<out_path[1], "_", name, ".json">>)
                    /\ tool' = func
                    /\ tool_args' = rest
                    /\ IF Binds(func, rest)
                       THEN /\ pc' = "TOOL"
                            /\ UNCHANGED tool_outcome
                       ELSE /\ pc' = "HALT"
                            /\ \E msg \in TypeErrorMsgs(func, rest) :
                                  tool_outcome' = Raise("TypeError", msg)
    /\ UNCHANGED <<rendering, analyzer>>
    /\ UNCHANGED <<scheduler, env, i, query_name, variables, request_variables, locals,
                   outcome, result, steps, sent, written, nest_applied>>

\* except Exception: result = {"error": str(e)}; save_json_result.
TestSave ==
    /\ pc = "HALT"
    /\ written' = Append(written,
           [path |-> out_path,
            content |-> IF tool_outcome.kind = "return"
                        THEN tool_outcome.value
                        ELSE ErrorResponse(tool_outcome.msg)])
    /\ pc' = "SAVED"
    /\ UNCHANGED <<facade, rendering, analyzer>>
    /\ UNCHANGED <<scheduler, env, i, query_name, out_path, variables,
                   request_variables, locals, outcome, result, steps, sent,
                   nest_applied>>

\* ------------------------------------------------------------------------
\* Rendering one type descriptor with both renderers
\* ------------------------------------------------------------------------

\* main, run_query_with_metadata and run_query are not running.
NoDispatch ==
    /\ all_params = <<>>
    /\ doc_store = StoreOf(SupportedPairs)
    /\ loop_running = FALSE
    /\ nest_applied = FALSE
    /\ i = 1
    /\ query_name = ""
    /\ out_path = <<>>
    /\ variables = EmptyMap
    /\ request_variables = EmptyMap
    /\ version = NoneVal
    /\ dataset = NoneVal
    /\ reference_genome = NoneVal
    /\ query_str = <<>>
    /\ outcome = NoOutcome
    /\ result = NoEnvelope
    /\ steps = <<>>
    /\ sent = <<>>
    /\ written = <<>>

\* What a wrapper chain ends in: a named type, a descriptor without a name,
\* or no descriptor at all.
InnermostDescriptors ==
    { Named("OBJECT", "T"), Named("SCALAR", "String"),
      Named("OBJECT", NoneVal), <<>> }

\* The descriptors with up to n wrappers around one of the innermost.
RECURSIVE DescriptorsUpTo(_)
DescriptorsUpTo(n) ==
    IF n = 0 THEN InnermostDescriptors
    ELSE LET inner == DescriptorsUpTo(n - 1)
         IN  inner \cup {Wrap(k, t) : k \in WrapperKinds, t \in inner}

\* Nothing was rendered yet.
NotRendered == [raised |-> FALSE, text |-> <<>>]

InitRender ==
    /\ NoOtherDispatch
    /\ type_input \in DescriptorsUpTo(MaxWrappers)
    /\ gql = NotRendered
    /\ type_string = NotRendered
    /\ pc = "RENDER"
    /\ NoToolCall
    /\ NoDerivation
    /\ NoDispatch

\* build_args: type_to_gql(a['type'])
RenderGql ==
    /\ pc = "RENDER"
    /\ gql = NotRendered
    /\ gql' = type_to_gql(type_input)
    /\ UNCHANGED <<type_input, type_string, facade, analyzer, dispatcher,
                   scheduler>>

\* get_required_fields_for_type: self._type_to_string(field_type_info)
RenderString ==
    /\ pc = "RENDER"
    /\ type_string = NotRendered
    /\ type_string' = _type_to_string(type_input)
    /\ UNCHANGED <<type_input, gql, facade, analyzer, dispatcher,
                   scheduler>>

\* ------------------------------------------------------------------------
\* SchemaAnalyzer.get_required_fields_for_type
\* ------------------------------------------------------------------------

MaxFields == 2
MaxDepth == 6

ScalarNames == {"String", "Int", "Float", "Boolean", "ID"}

\* The composite type names of the schemas.
TypeNames == {"A", "B", "C"}

\* The names of the fields of a type, by position.
FieldNames == <<"x", "y", "z", "w">>

\* An entry of types_map: a type with a field list, or one whose "fields" is
\* None.
TypeDef(fields) == [has_fields |-> TRUE, fields |-> fields]
NoFieldsDef == [has_fields |-> FALSE, fields |-> <<>>]

\* The type descriptors of the fields.
FieldTypes ==
    { Named("SCALAR", "String"), Named("OBJECT", "A"), Named("OBJECT", "B"),
      Named("OBJECT", "C"), Named("OBJECT", NoneVal),
      Wrap("NON_NULL", Wrap("LIST", Wrap("NON_NULL", Named("OBJECT", "B")))) }

\* The field lists of up to n fields.
FieldLists(n) ==
    UNION { { [p \in 1..len |-> [name |-> FieldNames[p], type |-> ts[p]]] :
              ts \in [1..len -> FieldTypes] } : len \in 0..n }

\* What types_map may hold for a type name: nothing, a type without fields,
\* or a type with up to n fields.
Entries(type_name, n) ==
    {EmptyMap}
    \cup {type_name :> d : d \in {NoFieldsDef}
                             \cup {TypeDef(fs) : fs \in FieldLists(n)}}

\* The schemas: the root type A has up to MaxFields fields, B and C up to one.
Schemas ==
    { a @@ b @@ c : a \in Entries("A", MaxFields), b \in Entries("B", 1),
                    c \in Entries("C", 1) }

\* A call of get_required_fields_for_type(type_name, visited): at its
\* entry, in its loop at field idx, or waiting for the recursive call made
\* for field idx.
Frame(type_name) ==
    [type_name |-> type_name, at |-> "entry", idx |-> 1, fields |-> <<>>]

Top(stk) == stk[Len(stk)]
ReplaceTop(stk, frame) == [stk EXCEPT ![Len(stk)] = frame]

\* One top-level call get_required_fields_for_type("A"): visited = set().
InitDerive ==
    /\ NoOtherDispatch
    /\ types_map \in Schemas
    /\ root_type = "A"
    /\ stack = <<Frame(root_type)>>
    /\ visited = {}
    /\ returned = <<>>
    /\ query_index = 0
    /\ query_field_map = <<>>
    /\ pc = "DERIVE"
    /\ NoToolCall
    /\ NoRendering
    /\ NoDispatch

\* The visited test that never cuts.
AlreadyVisitedNever(type_name, seen) == FALSE

\* if type_name in visited
AlreadyVisited(type_name, seen) == type_name \in seen

\* ReturnValue where an empty map makes the caller give up its loop: the
\* fields after the one it is at are not derived.
ReturnValueGivingUp(value) ==
    IF Len(stack) = 1
    THEN /\ stack' = <<>>
         /\ returned' = value
         /\ pc' = "HALT"
    ELSE LET caller == stack[Len(stack) - 1]
             resumed ==
                 [caller EXCEPT
                     !.fields = IF value /= <<>>
                                THEN [@ EXCEPT ![Len(@)].subfields = value]
                                ELSE @,
                     !.idx = IF value /= <<>> THEN @ + 1
                             ELSE Len(types_map[caller.type_name].fields) + 1,
                     !.at = "loop"]
         IN  /\ stack' = Append(SubSeq(stack, 1, Len(stack) - 2), resumed)
             /\ UNCHANGED <<returned, pc>>

\* `return value` of the call on top of the stack: the top-level caller gets
\* the fields; a recursive caller stores them under "subfields" of the field
\* it is at when they are not empty, and goes on with its next field.
ReturnValue(value) ==
    IF Len(stack) = 1
    THEN /\ stack' = <<>>
         /\ returned' = value
         /\ pc' = "HALT"
    ELSE LET caller == stack[Len(stack) - 1]
             resumed ==
                 [caller EXCEPT
                     !.fields = IF value /= <<>>
                                THEN [@ EXCEPT ![Len(@)].subfields = value]
                                ELSE @,
                     !.idx = @ + 1,
                     !.at = "loop"]
         IN  /\ stack' = Append(SubSeq(stack, 1, Len(stack) - 2), resumed)
             /\ UNCHANGED <<returned, pc>>

\* The head of the function: the visited test, visited.add, the returns of
\* an empty map for scalars, unknown types and types without fields.
DeriveEnter ==
    /\ pc = "DERIVE"
    /\ stack /= <<>>
    /\ Top(stack).at = "entry"
    /\ LET type_name == Top(stack).type_name
       IN  IF AlreadyVisited(type_name, visited)
           THEN /\ visited' = visited
                /\ ReturnValue(<<>>)
           ELSE /\ visited' = visited \cup {type_name}
                /\ IF type_name \in ScalarNames \/ ~Truthy(type_name)
                   THEN ReturnValue(<<>>)
                   ELSE IF type_name \notin DOMAIN types_map
                   THEN ReturnValue(<<>>)
                   ELSE IF ~types_map[type_name].has_fields
                   THEN ReturnValue(<<>>)
                   ELSE /\ stack' = ReplaceTop(stack,
                                       [Top(stack) EXCEPT !.at = "loop"])
                        /\ UNCHANGED <<returned, pc>>
    /\ UNCHANGED <<types_map, root_type, query_index, query_field_map, facade,
                   rendering>>
    /\ UNCHANGED <<scheduler, env, i, query_name, out_path, variables,
                   request_variables, locals, outcome, result, steps, sent,
                   written, nest_applied>>

\* One iteration of the loop over the fields: the entry of the field, and
\* the recursive call with the same visited set when its innermost type is no
\* scalar.  Field names are unique in a type, so the entry is a new key.
DeriveField ==
    /\ pc = "DERIVE"
    /\ stack /= <<>>
    /\ Top(stack).at = "loop"
    /\ Top(stack).idx <= Len(types_map[Top(stack).type_name].fields)
    /\ LET frame == Top(stack)
           field == types_map[frame.type_name].fields[frame.idx]
           inner_type == _extract_inner_type(field.type)
           entry == [name |-> field.name,
                     type |-> _type_to_string(field.type).text,
                     subfields |-> <<>>]
       IN  IF inner_type.raised
           THEN /\ stack' = stack
                /\ pc' = "CRASHED"
           ELSE IF inner_type.name \notin ScalarNames
           THEN /\ Len(stack) < MaxDepth
                /\ stack' = Append(
                       ReplaceTop(stack,
                           [frame EXCEPT !.fields = Append(@, entry),
                                         !.at = "wait"]),
                       Frame(inner_type.name))
                /\ pc' = pc
           ELSE /\ stack' = ReplaceTop(stack,
                       [frame EXCEPT !.fields = Append(@, entry),
                                     !.idx = @ + 1])
                /\ pc' = pc
    /\ UNCHANGED <<types_map, root_type, visited, returned, query_index,
                   query_field_map, facade, rendering>>
    /\ UNCHANGED <<scheduler, env, i, query_name, out_path, variables,
                   request_variables, locals, outcome, result, steps, sent,
                   written, nest_applied>>

\* The loop is over: return fields.
DeriveReturn ==
    /\ pc = "DERIVE"
    /\ stack /= <<>>
    /\ Top(stack).at = "loop"
    /\ Top(stack).idx > Len(types_map[Top(stack).type_name].fields)
    /\ ReturnValue(Top(stack).fields)
    /\ UNCHANGED <<types_map, root_type, visited, query_index,
                   query_field_map, facade, rendering>>
    /\ UNCHANGED <<scheduler, env, i, query_name, out_path, variables,
                   request_variables, locals, outcome, result, steps, sent,
                   written, nest_applied>>

\* ------------------------------------------------------------------------
\* SchemaAnalyzer.generate_query_field_map
\* ------------------------------------------------------------------------

\* The largest number of fields of the Query type.
MaxQueries == 2

\* The names of the fields of the Query type, by position.
QueryNames == <<"q1", "q2", "q3", "q4">>

\* The type descriptors the fields of the Query type return.
QueryTypes ==
    { Named("OBJECT", "A"),
      Wrap("NON_NULL", Wrap("LIST", Wrap("NON_NULL", Named("OBJECT", "B")))) }

\* The Query type over the given return type descriptors.
QueryType(ts) ==
    "Query" :> TypeDef([p \in 1..Len(ts) |->
                           [name |-> QueryNames[p], type |-> ts[p]]])

\* The composite types behind the Query type: A with up to MaxFields fields,
\* B absent or with one field, C absent or with one scalar field.
QueriedTypes ==
    { a @@ b @@ c :
        a \in Entries("A", MaxFields),
        b \in {EmptyMap}
              \cup { "B" :> TypeDef(<<[name |-> "x", type |-> t]>>) :
                       t \in { Named("SCALAR", "String"), Named("OBJECT", "A"),
                               Named("OBJECT", "C") } },
        c \in { EmptyMap,
                "C" :> TypeDef(<<[name |-> "x",
                                  type |-> Named("SCALAR", "String")]>>) } }

\* The schemas with a Query type: up to MaxQueries queries over the return
\* types, one Query type whose first field returns a type without name, and
\* a Query type whose "fields" is None.
QuerySchemas ==
    { types @@ query :
        types \in QueriedTypes,
        query \in { QueryType(ts) :
                      ts \in SeqsUpTo(QueryTypes, MaxQueries)
                             \cup {<<Named("OBJECT", NoneVal),
                                     Named("OBJECT", "A")>>} }
                  \cup {"Query" :> NoFieldsDef} }

\* A list of fields, or None in place of the list.
FieldList(fields) == [is_none |-> FALSE, list |-> fields]
NoneForList == [is_none |-> TRUE, list |-> <<>>]

\* SchemaAnalyzer.get_query_fields(): query_type["fields"] of the type named
\* Query, which is None when the type has no field list; an empty list when
\* there is no such type.
get_query_fields ==
    IF "Query" \in DOMAIN types_map
    THEN IF types_map["Query"].has_fields
         THEN FieldList(types_map["Query"].fields)
         ELSE NoneForList
    ELSE FieldList(<<>>)

\* What a lookup in the Query fields gives: the value, or the TypeError of
\* iterating over None.
Looked(value) == [raised |-> FALSE, value |-> value]
TypeErrorOfIteration == [raised |-> TRUE, value |-> <<>>]

\* SchemaAnalyzer.get_query_by_name(query_name): the first field of Query
\* with that name, as a list of one, or None as the empty list.
get_query_by_name(name) ==
    IF get_query_fields.is_none THEN TypeErrorOfIteration
    ELSE LET fields == get_query_fields.list
             found == {p \in 1..Len(fields) : fields[p].name = name}
         IN  IF found = {} THEN Looked(<<>>)
             ELSE Looked(<<fields[CHOOSE p \in found :
                                     \A q \in found : p <= q]>>)

\* SchemaAnalyzer.get_query_return_type(query_name): the name at the end of
\* the ofType chain of the query's type, or None, as a list of one name.
get_query_return_type(name) ==
    LET query == get_query_by_name(name)
    IN  IF query.raised THEN TypeErrorOfIteration
        ELSE IF query.value = <<>> THEN Looked(<<NoneVal>>)
        ELSE Looked(<<query.value[1].type[Len(query.value[1].type)].name>>)

\* The visited set that is never emptied between the top-level calls.
FreshVisitedShared == visited

\* The visited set of a top-level call, which passes none: set().
FreshVisited == {}

\* generate_query_field_map starts on a loaded schema.
InitFieldMap ==
    /\ NoOtherDispatch
    /\ types_map \in QuerySchemas
    /\ root_type = NoneVal
    /\ stack = <<>>
    /\ visited = {}
    /\ returned = <<>>
    /\ query_index = 1
    /\ query_field_map = <<>>
    /\ pc = "GENERATE"
    /\ NoToolCall
    /\ NoRendering
    /\ NoDispatch

\* One iteration of the loop over the Query fields, up to the top-level call
\* get_required_fields_for_type(return_type); a query without return type
\* name is skipped.  The for statement raises TypeError when get_query_fields
\* gave None.
FieldMapNext ==
    /\ pc = "GENERATE"
    /\ get_query_fields.is_none \/ query_index <= Len(get_query_fields.list)
    /\ IF get_query_fields.is_none
       THEN /\ pc' = "CRASHED"
            /\ UNCHANGED <<root_type, stack, visited, returned, query_index>>
       ELSE LET return_type ==
                    get_query_return_type(
                        get_query_fields.list[query_index].name).value[1]
            IN  IF Truthy(return_type)
                THEN /\ root_type' = return_type
                     /\ stack' = <<Frame(return_type)>>
                     /\ visited' = FreshVisited
                     /\ returned' = <<>>
                     /\ pc' = "DERIVE"
                     /\ UNCHANGED query_index
                ELSE /\ query_index' = query_index + 1
                     /\ UNCHANGED <<root_type, stack, visited, returned, pc>>
    /\ UNCHANGED <<types_map, query_field_map, facade, rendering>>
    /\ UNCHANGED <<scheduler, env, i, query_name, out_path, variables,
                   request_variables, locals, outcome, result, steps, sent,
                   written, nest_applied>>

\* The top-level call has returned: the entry of the query is written, and
\* the loop goes on.
FieldMapStore ==
    /\ pc = "HALT"
    /\ stack = <<>>
    /\ query_index \in 1..Len(get_query_fields.list)
    /\ query_field_map' =
           Append(query_field_map,
                  [query_name |-> get_query_fields.list[query_index].name,
                   return_type |-> root_type,
                   fields |-> returned])
    /\ query_index' = query_index + 1
    /\ pc' = "GENERATE"
    /\ UNCHANGED <<types_map, root_type, stack, visited, returned, facade,
                   rendering>>
    /\ UNCHANGED <<scheduler, env, i, query_name, out_path, variables,
                   request_variables, locals, outcome, result, steps, sent,
                   written, nest_applied>>

\* The loop is over: return query_field_map.
FieldMapReturn ==
    /\ pc = "GENERATE"
    /\ ~get_query_fields.is_none
    /\ query_index > Len(get_query_fields.list)
    /\ pc' = "DONE"
    /\ UNCHANGED <<analyzer, facade, rendering>>
    /\ UNCHANGED <<scheduler, env, i, query_name, out_path, variables,
                   request_variables, locals, outcome, result, steps, sent,
                   written, nest_applied>>

\* ------------------------------------------------------------------------
\* Two dispatches on one event loop
\* ------------------------------------------------------------------------

\* The locals of run_query_with_metadata, run_query and execute_query_sync
\* of one dispatch, and the executions its transport was asked for.
Locals(at, qname, var_values, req_var_values, ver, ds, genome, document, ended, envelope, done, executions) ==
    [pc |-> at, query_name |-> qname, variables |-> var_values,
     request_variables |-> req_var_values, version |-> ver, dataset |-> ds,
     reference_genome |-> genome, query_str |-> document, outcome |-> ended,
     result |-> envelope, steps |-> done, sent |-> executions]

\* A dispatch that has not started: run_query_with_metadata(qname, var_values).
NotStarted(qname, var_values) ==
    Locals("ENTER", qname, var_values, EmptyMap, NoneVal, NoneVal, NoneVal, <<>>,
           NoOutcome, NoEnvelope, <<>>, <<>>)

\* run_query_with_metadata has returned or raised.
ReturnedOrRaised == {"WRITE", "CRASHED"}

\* The dispatch is inside asyncio.run or loop.run_until_complete: its
\* coroutine is on the loop, before the transport is started or awaiting it.
InsideLoopRun == {"RUN_SEND", "RUN_AWAIT", "FALLBACK_SEND", "FALLBACK_AWAIT"}

\* Where a dispatch is when another one can go on: ended, or, on a running
\* loop that nest_asyncio made re-entrant, inside its run of the loop.
AtTransportOrEnded ==
    IF loop_running THEN InsideLoopRun \cup ReturnedOrRaised
    ELSE ReturnedOrRaised

\* Two calls of run_query_with_metadata in one process: the first one runs,
\* the second one waits to be scheduled.
InitConcurrent ==
    /\ NoToolCall
    /\ NoRendering
    /\ NoDerivation
    /\ \E first, second \in BatchRecords :
          /\ all_params = <<first, second>>
          /\ query_name = first["query_name"]
          /\ variables = CallerVariables(first)
          /\ parked = NotStarted(second["query_name"],
                                 CallerVariables(second))
    /\ running = 1
    /\ doc_store \in StoreOptions
    /\ loop_running \in BOOLEAN
    /\ nest_applied = FALSE
    /\ i = 1
    /\ pc = "ENTER"
    /\ out_path = <<>>
    /\ request_variables = EmptyMap
    /\ version = NoneVal
    /\ dataset = NoneVal
    /\ reference_genome = NoneVal
    /\ query_str = <<>>
    /\ outcome = NoOutcome
    /\ result = NoEnvelope
    /\ steps = <<>>
    /\ sent = <<>>
    /\ written = <<>>

\* The running dispatch has handed its coroutine to the loop, or has ended,
\* and the loop runs the other dispatch: the locals change hands, the module
\* state of asyncio (nest_applied) and the files stay as they are.
Swap ==
    /\ parked /= NoParked
    /\ pc \in AtTransportOrEnded
    /\ parked.pc \notin ReturnedOrRaised
    /\ parked' = Locals(pc, query_name, variables, request_variables, version,
                        dataset, reference_genome, query_str, outcome, result,
                        steps, sent)
    /\ running' = 3 - running
    /\ pc' = parked.pc
    /\ query_name' = parked.query_name
    /\ variables' = parked.variables
    /\ request_variables' = parked.request_variables
    /\ version' = parked.version
    /\ dataset' = parked.dataset
    /\ reference_genome' = parked.reference_genome
    /\ query_str' = parked.query_str
    /\ outcome' = parked.outcome
    /\ result' = parked.result
    /\ steps' = parked.steps
    /\ sent' = parked.sent
    /\ UNCHANGED <<env, i, out_path, written, nest_applied>>
    /\ UNCHANGED <<facade, rendering, analyzer>>

\* ------------------------------------------------------------------------
\* Specifications
\* ------------------------------------------------------------------------

Next ==
    \/ MainNext
    \/ MetadataEnter
    \/ ResolveVersion
    \/ ResolveDatasetAndGenome
    \/ ValidateQuerySupport
    \/ ValidateConsistency
    \/ LoadDocument
    \/ Execute
    \/ ExecuteSend
    \/ ExecuteAwait
    \/ Fallback
    \/ FallbackSend
    \/ FallbackAwait
    \/ MetadataReturn
    \/ MainWrite
    \/ MainExit

\* Single calls over every combination of hints and query names.
Spec == Init /\ [][Next]_vars

\* Batches of representative records.
SpecBatch == InitBatch /\ [][Next]_vars

NextTools ==
    \/ ToolCall
    \/ MetadataEnter
    \/ ResolveVersion
    \/ ResolveDatasetAndGenome
    \/ ValidateQuerySupport
    \/ ValidateConsistency
    \/ LoadDocument
    \/ Execute
    \/ ExecuteSend
    \/ ExecuteAwait
    \/ Fallback
    \/ FallbackSend
    \/ FallbackAwait
    \/ MetadataReturn
    \/ ToolReturn

\* Single calls of the tools of server.py.
SpecTools == InitTools /\ [][NextTools]_vars

NextTests ==
    \/ TestCall
    \/ ToolCall
    \/ MetadataEnter
    \/ ResolveVersion
    \/ ResolveDatasetAndGenome
    \/ ValidateQuerySupport
    \/ ValidateConsistency
    \/ LoadDocument
    \/ Execute
    \/ ExecuteSend
    \/ ExecuteAwait
    \/ Fallback
    \/ FallbackSend
    \/ FallbackAwait
    \/ MetadataReturn
    \/ ToolReturn
    \/ TestSave

\* The parametrized tests of tests/test_server.py, one record each.
SpecTests == InitTests /\ [][NextTests]_vars

NextRender ==
    \/ RenderGql
    \/ RenderString

\* One type descriptor rendered by type_to_gql and by _type_to_string.
SpecRender == InitRender /\ [][NextRender]_vars

NextDerive ==
    \/ DeriveEnter
    \/ DeriveField
    \/ DeriveReturn

\* One top-level field derivation over every schema.
SpecDerive == InitDerive /\ [][NextDerive]_vars

\* The derivation runs on: the interpreter takes the next step of the call.
SpecDeriveFair == SpecDerive /\ WF_vars(NextDerive)

NextFieldMap ==
    \/ FieldMapNext
    \/ DeriveEnter
    \/ DeriveField
    \/ DeriveReturn
    \/ FieldMapStore
    \/ FieldMapReturn

\* generate_query_field_map over every schema with a Query type.
SpecFieldMap == InitFieldMap /\ [][NextFieldMap]_vars

NextConcurrent ==
    \/ MetadataEnter
    \/ ResolveVersion
    \/ ResolveDatasetAndGenome
    \/ ValidateQuerySupport
    \/ ValidateConsistency
    \/ LoadDocument
    \/ Execute
    \/ ExecuteSend
    \/ ExecuteAwait
    \/ Fallback
    \/ FallbackSend
    \/ FallbackAwait
    \/ MetadataReturn
    \/ Swap

\* Two dispatches interleaved around their transport calls.
SpecConcurrent == InitConcurrent /\ [][NextConcurrent]_vars

TypeOK ==
    /\ pc \in {"MAIN", "TOOL", "TEST", "SAVED", "RENDER", "DERIVE", "GENERATE", "DONE", "ENTER",
               "FALLBACK", "RUN_SEND", "RUN_AWAIT", "FALLBACK_SEND",
               "FALLBACK_AWAIT",
               "ENVELOPE", "WRITE", "HALT", "CRASHED"} \cup Range(StepOrder)
    /\ i \in 1..(Len(all_params) + 1)
    /\ outcome.kind \in {"none", "return", "raise"}
    /\ Len(written) <= Len(all_params)

\* ------------------------------------------------------------------------
\* Vocabulary of the properties
\* ------------------------------------------------------------------------

Last(s) == s[Len(s)]

IsPrefix(s, t) ==
    /\ Len(s) <= Len(t)
    /\ \A n \in 1..Len(s) : s[n] = t[n]

\* The caller's hints of the current dispatch.
HintVersion == Get(variables, "version")
HintDataset == Get(variables, "dataset")
HintGenome == Get(variables, "reference_genome")

\* run_query has ended (returned or raised) for the current dispatch.
Ended == outcome.kind /= "none"

\* run_query ended in an error: a raised exception or a returned {"error": ..}.
EndedInError ==
    \/ outcome.kind = "raise"
    \/ outcome.kind = "return" /\ outcome.value.tag = "error"

\* run_query raised in the given step.
RaisedIn(step) ==
    /\ outcome.kind = "raise"
    /\ steps /= <<>>
    /\ Last(steps) = step

\* Versions whose reference genome is rg.
GenomeVersions(rg) == {v \in Versions : REF_GENOME_MAP[v] = rg}

\* The caller's dataset and reference genome imply different versions.
ContradictoryHints ==
    /\ HintDataset \in KnownDatasets
    /\ GenomeVersions(HintGenome) /= {}
    /\ ALL_DATASET_TO_VERSION[HintDataset] \notin GenomeVersions(HintGenome)

\* The document was read by the current dispatch.
Loaded ==
    /\ "LOAD_DOCUMENT" \in Range(steps)
    /\ ~RaisedIn("LOAD_DOCUMENT")

\* ------------------------------------------------------------------------
\* C1
\* ------------------------------------------------------------------------

\* C1 as stated: every dispatch whose dataset and reference genome imply
\* different versions ends in a raised error without a transport call.
C1_ContradictoryHintsRejected ==
    (Ended /\ ContradictoryHints) =>
        (outcome.kind = "raise" /\ sent = <<>>)

\* The completed (dataset, reference_genome) pair of a dispatch whose version
\* hint is valid.
CompletedDetect ==
    detect_version(
        IF Truthy(HintDataset) THEN HintDataset ELSE DATASET_MAP[HintVersion],
        IF Truthy(HintGenome) THEN HintGenome ELSE REF_GENOME_MAP[HintVersion])

\* C1 (amended): when the caller gives a version hint that is one of v2, v3,
\* v4 and supports the query, and the completed (dataset, reference_genome)
\* pair resolves to a different version, the consistency step raises the
\* mismatch error and the transport is never called; when no version hint is
\* given, a dataset and a reference genome that imply different versions are
\* not reported by the consistency step.
C1_HintMismatchRejected ==
    Ended =>
        /\ ( /\ HintVersion \in Versions
             /\ IsSupported(HintVersion, query_name)
             /\ ~CompletedDetect.raised
             /\ CompletedDetect.value /= HintVersion )
           => ( /\ outcome = Raise("ValueError",
                        InconsistentMsg(HintVersion, CompletedDetect.value))
                /\ RaisedIn("VALIDATE_CONSISTENCY")
                /\ sent = <<>> )
        /\ (~Truthy(HintVersion) /\ ContradictoryHints)
           => ~RaisedIn("VALIDATE_CONSISTENCY")

\* A dispatch with version v2 and dataset gnomad_r4 was rejected as
\* inconsistent.
C1_Witness ==
    /\ RaisedIn("VALIDATE_CONSISTENCY")
    /\ HintVersion = "v2"
    /\ HintDataset = "gnomad_r4"
    /\ outcome.msg = InconsistentMsg("v2", "v4")
    /\ sent = <<>>

\* ------------------------------------------------------------------------
\* C2
\* ------------------------------------------------------------------------

\* C2: every transport execution receives the completed variables: the
\* version's default dataset / reference genome where the caller gave none,
\* the caller's value where one was given.
C2_CompletedVariablesSent ==
    \A n \in 1..Len(sent) :
        LET vv == sent[n].variable_values
        IN  /\ Get(vv, "dataset") =
                 (IF Truthy(HintDataset) THEN HintDataset
                  ELSE DATASET_MAP[version])
            /\ Get(vv, "reference_genome") =
                 (IF Truthy(HintGenome) THEN HintGenome
                  ELSE REF_GENOME_MAP[version])

\* ------------------------------------------------------------------------
\* C3
\* ------------------------------------------------------------------------

\* C3: a dispatch with a dataset of the dataset table reads, and sends, only
\* the document of (the dataset's version, query name); and when the query
\* is supported for that version, no contradicting version hint is given and
\* the document exists, the dispatch does read it.
C3_DocumentOfResolvedVersion ==
    HintDataset \in KnownDatasets =>
        LET v == ALL_DATASET_TO_VERSION[HintDataset]
        IN  /\ Loaded => query_str = DocumentText(v, query_name)
            /\ \A n \in 1..Len(sent) :
                 sent[n].document = DocumentText(v, query_name)
            /\ ( /\ Ended
                 /\ IsSupported(v, query_name)
                 /\ (~Truthy(HintVersion) \/ HintVersion = v)
                 /\ DocumentFile(v, query_name) \in DOMAIN doc_store )
               => Loaded

\* The v2 structural_variant document was read for dataset gnomad_sv_r2_1,
\* a query name v4 has a document for as well.
C3_Witness ==
    /\ Loaded
    /\ HintDataset = "gnomad_sv_r2_1"
    /\ query_name = "structural_variant"
    /\ query_str = DocumentText("v2", "structural_variant")
    /\ DocumentFile("v4", "structural_variant") \in DOMAIN doc_store

\* ------------------------------------------------------------------------
\* C4
\* ------------------------------------------------------------------------

\* C4: the steps of a dispatch are entered in the order RESOLVE_VERSION,
\* RESOLVE_DATASET_AND_GENOME, VALIDATE_QUERY_SUPPORT, VALIDATE_CONSISTENCY,
\* LOAD_DOCUMENT, EXECUTE; the transport is reached only after all of them,
\* each having succeeded; a dispatch that ends before EXECUTE ends in an
\* error and has made no transport call.
C4_TransportAfterAllSteps ==
    /\ IsPrefix(steps, StepOrder)
    /\ (sent /= <<>> \/ pc = "FALLBACK" \/ "EXECUTE" \in Range(steps)) =>
         /\ steps = StepOrder
         /\ version \in Versions
         /\ Truthy(dataset) /\ Truthy(reference_genome)
         /\ IsSupported(version, query_name)
         /\ ~detect_version(dataset, reference_genome).raised
         /\ detect_version(dataset, reference_genome).value = version
         /\ DocumentFile(version, query_name) \in DOMAIN doc_store
         /\ query_str = doc_store[DocumentFile(version, query_name)]
    /\ (Ended /\ steps /= StepOrder) => (EndedInError /\ sent = <<>>)

\* A dispatch failed on a missing document: five steps, no transport call.
C4_Witness ==
    /\ RaisedIn("LOAD_DOCUMENT")
    /\ Len(steps) = 5
    /\ sent = <<>>

\* ------------------------------------------------------------------------
\* C5
\* ------------------------------------------------------------------------

\* The version run_query resolves for the current hints (None when it fails).
Resolved ==
    IF Truthy(HintVersion) THEN HintVersion
    ELSE detect_version(HintDataset, HintGenome).value

\* C5: a dispatch whose query name is not in the supported list of the
\* resolved version raises a ValueError, without a transport call, whose
\* message names the query, the version and exactly that version's supported
\* queries.
C5_UnsupportedQueryMessage ==
    (Ended /\ Resolved \in Versions /\ ~IsSupported(Resolved, query_name)) =>
        /\ outcome.kind = "raise"
        /\ outcome.type = "ValueError"
        /\ RaisedIn("VALIDATE_QUERY_SUPPORT")
        /\ sent = <<>>
        /\ query_name \in Range(outcome.msg)
        /\ Resolved \in Range(outcome.msg)
        /\ Range(outcome.msg) \cap (QueryNameInputs \ {query_name})
             = Range(SUPPORTED_QUERIES[Resolved])

\* region under v2 was rejected with the v2 list in the message.
C5_Witness ==
    /\ RaisedIn("VALIDATE_QUERY_SUPPORT")
    /\ query_name = "region"
    /\ version = "v2"
    /\ "liftover" \in Range(outcome.msg)

\* ------------------------------------------------------------------------
\* C6
\* ------------------------------------------------------------------------

\* No version hint, dataset not in the table, reference genome of no version.
CannotResolve ==
    /\ ~Truthy(HintVersion)
    /\ HintDataset \notin KnownDatasets
    /\ GenomeVersions(HintGenome) = {}

\* C6: when the version cannot be resolved, run_query does not raise; it
\* returns {"error": message} from the first step and performs no later
\* step: no document is read and no transport call is made.
C6_UnresolvedVersionSoftError ==
    (CannotResolve /\ pc \notin {"MAIN", "ENTER", "HALT"}) =>
        /\ IsPrefix(steps, <<"RESOLVE_VERSION">>)
        /\ outcome.kind /= "raise"
        /\ steps /= <<>> => outcome = Return(ErrorResponse(VersionErrorMsg))
        /\ query_str = <<>>
        /\ sent = <<>>

\* A dispatch with only dataset unknown_ds returned the error value.
C6_Witness ==
    /\ HintDataset = "unknown_ds"
    /\ HintGenome = NoneVal
    /\ outcome = Return(ErrorResponse(VersionErrorMsg))
    /\ pc = "WRITE"

\* ------------------------------------------------------------------------
\* C7
\* ------------------------------------------------------------------------

\* C7: one dispatch starts at most one transport execution.
C7_AtMostOneExecution == Len(sent) <= 1

\* ------------------------------------------------------------------------
\* C8
\* ------------------------------------------------------------------------

EnvelopeFields == {"endpoint", "request_query", "request_variables", "response"}

\* C8: run_query_with_metadata never lets an exception escape; whatever the
\* outcome of run_query, it returns an envelope with exactly the fields
\* endpoint, request_query, request_variables and response, whose response
\* is the value run_query returned (the decoded JSON of the transport on
\* success, the {"error": ..} value of a failed version resolution) or
\* {"error": str(e)} of the exception e it raised.
C8_EnvelopeAlways ==
    /\ pc /= "CRASHED"
    /\ pc = "WRITE" =>
         /\ Ended
         /\ DOMAIN result = EnvelopeFields
         /\ result.endpoint = GNOMAD_API_URL
         /\ result.request_query = query_name
         /\ outcome.kind = "return" => result.response = outcome.value
         /\ outcome.kind = "raise" =>
              result.response = ErrorResponse(outcome.msg)
         /\ result.response.tag \in {"data", "error"}
         /\ result.response.tag = "data" =>
              /\ sent /= <<>>
              /\ result.response =
                   DataResponse(Last(sent).document,
                                Last(sent).variable_values)

\* An envelope was built for a KeyError (version hint v5 without dataset).
C8_Witness ==
    /\ pc = "WRITE"
    /\ outcome.kind = "raise"
    /\ outcome.type = "KeyError"
    /\ result.response = ErrorResponse(KeyErrorMsg("v5"))

\* ------------------------------------------------------------------------
\* C9
\* ------------------------------------------------------------------------

\* C9: during and after a dispatch the caller's mapping is what the caller
\* passed, and the envelope's request_variables equals it key for key,
\* whatever the outcome.
C9_RequestVariablesEcho ==
    /\ pc \notin {"MAIN", "HALT"} =>
         variables = CallerVariables(all_params[i])
    /\ pc = "WRITE" =>
         /\ DOMAIN result.request_variables =
              DOMAIN CallerVariables(all_params[i])
         /\ \A k \in DOMAIN result.request_variables :
              result.request_variables[k] = all_params[i][k]

\* A dispatch that backfilled the dataset (none given) and succeeded echoes
\* variables without dataset.
C9_Witness ==
    /\ pc = "WRITE"
    /\ result.response.tag = "data"
    /\ dataset = "gnomad_r3"
    /\ "dataset" \notin DOMAIN result.request_variables
    /\ "reference_genome" \in DOMAIN result.request_variables

\* ------------------------------------------------------------------------
\* C10
\* ------------------------------------------------------------------------

\* Necessary for the record's dispatch to reach the transport call.
Dispatchable(param) ==
    LET hint == Get(param, "version")
        v == IF Truthy(hint) THEN hint
             ELSE detect_version(Get(param, "dataset"),
                                 Get(param, "reference_genome")).value
    IN  /\ v \in Versions
        /\ IsSupported(v, param["query_name"])
        /\ ~(Truthy(hint) /\ Get(param, "dataset") \in KnownDatasets
             /\ ALL_DATASET_TO_VERSION[Get(param, "dataset")] /= v)
        /\ DocumentFile(v, param["query_name"]) \in DOMAIN doc_store

\* C10: the batch runner writes the envelopes in list order, one per record
\* processed: the n-th write is the envelope of the n-th record, at that
\* record's output file; a record that cannot be dispatched or whose
\* dispatch failed has an error response; no failure stops the loop, which
\* ends only after the last record was written.
C10_OneEnvelopePerRecord ==
    /\ pc /= "CRASHED"
    /\ Len(written) = i - 1
    /\ i <= Len(all_params) + 1
    /\ pc = "HALT" => Len(written) = Len(all_params)
    /\ pc /= "HALT" => ENABLED Next
    /\ \A n \in 1..Len(written) :
         /\ written[n].path = OutPath(all_params[n])
         /\ written[n].content.request_query = all_params[n]["query_name"]
         /\ written[n].content.request_variables =
              CallerVariables(all_params[n])
         /\ written[n].content.response.tag \in {"data", "error"}
         /\ ~Dispatchable(all_params[n]) =>
              written[n].content.response.tag = "error"
    /\ (pc = "WRITE" /\ EndedInError) => result.response.tag = "error"

\* The batch ended with an error envelope for the first record followed by
\* a data envelope for the second.
C10_Witness ==
    /\ pc = "HALT"
    /\ Len(written) >= 2
    /\ written[1].content.response.tag = "error"
    /\ written[2].content.response.tag = "data"

\* ------------------------------------------------------------------------
\* Vocabulary of the properties about the tools
\* ------------------------------------------------------------------------

\* The caller passed a non-empty value for the argument.
Supplied(name) == name \in DOMAIN tool_args /\ Truthy(tool_args[name])

\* The tool function has run up to its raise or its dispatcher call.
ToolActed == tool /= "" /\ pc /= "TOOL"

\* The tool raised its validation error.
ToolRejected ==
    /\ tool_outcome.kind = "raise"
    /\ tool_outcome.type = "ValueError"

\* run_query_with_metadata was called by the tool.
DispatcherCalled ==
    \/ query_name /= ""
    \/ variables /= EmptyMap
    \/ request_variables /= EmptyMap
    \/ steps /= <<>>

\* Nothing behind the tool ran: no dispatcher state, no transport execution.
NothingBehindTool ==
    /\ ~DispatcherCalled
    /\ sent = <<>>
    /\ outcome = NoOutcome
    /\ result = NoEnvelope

\* ------------------------------------------------------------------------
\* C11
\* ------------------------------------------------------------------------

\* Exactly one identifier is supplied and the build is the one it lives on.
LiftoverArgumentsFit ==
    \/ /\ Supplied("source_variant_id")
       /\ ~Supplied("liftover_variant_id")
       /\ tool_args["reference_genome"] = "GRCh37"
    \/ /\ Supplied("liftover_variant_id")
       /\ ~Supplied("source_variant_id")
       /\ tool_args["reference_genome"] = "GRCh38"

\* C11: the liftover tool calls the dispatcher only when exactly one of
\* source_variant_id and liftover_variant_id is supplied and the reference
\* genome is GRCh37 for the former, GRCh38 for the latter; with both, with
\* neither or with the other build it raises its validation error and neither
\* the dispatcher nor the transport runs.
C11_LiftoverValidation ==
    (tool = "get_variant_liftover" /\ ToolActed) =>
        /\ DispatcherCalled => LiftoverArgumentsFit
        /\ ~LiftoverArgumentsFit => (ToolRejected /\ NothingBehindTool)

\* A liftover call with only the lifted-over identifier on GRCh38 reached the
\* transport and returned.
C11_Witness ==
    /\ tool = "get_variant_liftover"
    /\ Supplied("liftover_variant_id")
    /\ ~Supplied("source_variant_id")
    /\ sent /= <<>>
    /\ tool_outcome.kind = "return"

\* ------------------------------------------------------------------------
\* C12
\* ------------------------------------------------------------------------

\* The tools restricted to one combination, with the dataset of each.
RestrictedTools ==
    [get_gene_info |-> "gnomad_r4",
     get_region_info |-> "gnomad_r4",
     get_mitochondrial_variant_info |-> "gnomad_r4",
     get_copy_number_variant_info |-> "gnomad_cnv_r4",
     get_str_info |-> "gnomad_r4"]

\* The dataset and the reference genome the tool body works with: the
\* arguments, or the defaults of the signature.
ToolDataset ==
    IF tool \in DOMAIN RestrictedTools
    THEN Arg(tool_args, "dataset", RestrictedTools[tool])
    ELSE Arg(tool_args, "dataset", "gnomad_r2_1")
ToolGenome == Arg(tool_args, "reference_genome", "GRCh38")

\* The call names the one combination a restricted tool accepts.
PermittedCombination ==
    /\ tool \in DOMAIN RestrictedTools
    /\ ToolDataset = RestrictedTools[tool]
    /\ ToolGenome = "GRCh38"

\* C12 as stated: every restricted tool (gene, region, mitochondrial_variant,
\* copy_number_variant, short_tandem_repeat) raises its validation error,
\* with nothing behind the tool run, for every call whose dataset or whose
\* reference genome differs from its v4 dataset with GRCh38.
C12_RestrictedToolsReject ==
    (tool \in DOMAIN RestrictedTools /\ ToolActed /\ ~PermittedCombination)
        => (ToolRejected /\ NothingBehindTool)

\* ------------------------------------------------------------------------
\* C13
\* ------------------------------------------------------------------------

\* C13: the gene tool called with neither gene_id nor gene_symbol raises its
\* validation error in the tool body, with nothing behind the tool run; called
\* with one or both of them and the permitted dataset and build it raises
\* nothing and dispatches the gene query with the arguments as variables.
C13_GeneIdentifierRequired ==
    (tool = "get_gene_info" /\ ToolActed) =>
        /\ (~Supplied("gene_id") /\ ~Supplied("gene_symbol"))
              => /\ ToolRejected
                 /\ NothingBehindTool
                 /\ pc = "HALT"
                 /\ PermittedCombination =>
                      tool_outcome.msg =
                        <<"Either gene_id or gene_symbol must be provided.">>
        /\ ((Supplied("gene_id") \/ Supplied("gene_symbol"))
            /\ PermittedCombination)
              => /\ ~ToolRejected
                 /\ query_name = "gene"
                 /\ variables["gene_id"] =
                        Arg(tool_args, "gene_id", NoneVal)
                 /\ variables["gene_symbol"] =
                        Arg(tool_args, "gene_symbol", NoneVal)

\* A gene call with only the symbol was dispatched as the gene query and
\* reached the transport.
C13_Witness ==
    /\ tool = "get_gene_info"
    /\ Supplied("gene_symbol")
    /\ ~Supplied("gene_id")
    /\ query_name = "gene"
    /\ sent /= <<>>

\* ------------------------------------------------------------------------
\* Vocabulary of the properties about version resolution
\* ------------------------------------------------------------------------

\* The first step of the current dispatch has run.
ResolutionDone == steps /= <<>> /\ steps[1] = "RESOLVE_VERSION"

\* The first step ended the dispatch with the resolution error.
ResolutionFailed ==
    /\ ResolutionDone
    /\ Len(steps) = 1
    /\ outcome = Return(ErrorResponse(VersionErrorMsg))

\* The dispatch resolves its version by detect_version: no hint is given.
Detecting == ResolutionDone /\ ~Truthy(HintVersion)

\* ------------------------------------------------------------------------
\* C14
\* ------------------------------------------------------------------------

\* C14: for every version v of v2, v3, v4, a dispatch given v's default
\* dataset and v's default reference genome resolves to v.
C14_DefaultsResolveToOwnVersion ==
    \A v \in Versions :
        (Detecting /\ HintDataset = DATASET_MAP[v]
                   /\ HintGenome = REF_GENOME_MAP[v])
            => /\ version = v
               /\ ~ResolutionFailed
               /\ detect_version(DATASET_MAP[v], REF_GENOME_MAP[v]).value = v

\* The v4 defaults were resolved to v4, the version that GRCh38 alone does
\* not give.
C14_Witness ==
    /\ Detecting
    /\ HintDataset = "gnomad_r4"
    /\ HintGenome = "GRCh38"
    /\ version = "v4"
    /\ "VALIDATE_QUERY_SUPPORT" \in Range(steps)

\* ------------------------------------------------------------------------
\* C15
\* ------------------------------------------------------------------------

\* C15: the dataset is looked up first: a dataset of the table resolves to
\* its version whatever the reference genome (gnomad_sv_r4 gives v4), and the
\* resolution error is returned exactly when the dataset is absent or not in
\* the table and the reference genome is that of no version.
C15_DatasetFirst ==
    Detecting =>
        /\ HintDataset \in KnownDatasets =>
              /\ version = ALL_DATASET_TO_VERSION[HintDataset]
              /\ ~ResolutionFailed
        /\ HintDataset = "gnomad_sv_r4" => version = "v4"
        /\ ResolutionFailed <=>
              /\ HintDataset \notin KnownDatasets
              /\ \A v \in Versions : REF_GENOME_MAP[v] /= HintGenome

\* gnomad_sv_r4 with the v2 reference genome was resolved to v4.
C15_Witness ==
    /\ Detecting
    /\ HintDataset = "gnomad_sv_r4"
    /\ HintGenome = "GRCh37"
    /\ version = "v4"
    /\ "VALIDATE_QUERY_SUPPORT" \in Range(steps)

\* ------------------------------------------------------------------------
\* C16
\* ------------------------------------------------------------------------

\* C16: with no dataset of the table to go by, the reference genome alone
\* decides, first match in declaration order: GRCh37 gives v2, GRCh38 gives
\* v3 and never v4.
C16_GenomeOnlyFirstMatch ==
    (Detecting /\ HintDataset \notin KnownDatasets) =>
        /\ HintGenome = "GRCh37" => version = "v2"
        /\ HintGenome = "GRCh38" => (version = "v3" /\ version /= "v4")
        /\ HintGenome \in {"GRCh37", "GRCh38"} => ~ResolutionFailed

\* GRCh38 given alone was resolved to v3.
C16_Witness ==
    /\ Detecting
    /\ "dataset" \notin DOMAIN variables
    /\ HintGenome = "GRCh38"
    /\ version = "v3"
    /\ "VALIDATE_QUERY_SUPPORT" \in Range(steps)

\* ------------------------------------------------------------------------
\* C17
\* ------------------------------------------------------------------------

\* What the dataset and the reference genome of the caller resolve to.
Detected == detect_version(HintDataset, HintGenome)

\* C17 as stated: a valid hint is the version, and a dispatch whose hint is
\* present but is none of v2, v3, v4 resolves its version from the dataset,
\* then the reference genome, as a dispatch without hint does.
C17_InvalidHintFallsBack ==
    ResolutionDone =>
        /\ HintVersion \in Versions => version = HintVersion
        /\ (Truthy(HintVersion) /\ HintVersion \notin Versions) =>
              IF Detected.raised THEN ResolutionFailed
              ELSE version = Detected.value

\* C17 (amended): a hint that is present (non-empty) is the version, valid
\* or not, and the dataset and the reference genome are not consulted to
\* resolve it; when it is none of v2, v3, v4 the dispatch never gets past
\* query-support validation: run_query raises KeyError in the defaults lookup
\* when the dataset or the reference genome is missing, otherwise ValueError
\* "Unknown gnomAD version", and the transport is never called.  Only an
\* absent or empty hint is resolved from the dataset, then the genome.
C17_PresentHintDecides ==
    ResolutionDone =>
        /\ Truthy(HintVersion) =>
              /\ version = HintVersion
              /\ ~ResolutionFailed
        /\ (Truthy(HintVersion) /\ HintVersion \notin Versions) =>
              /\ "VALIDATE_CONSISTENCY" \notin Range(steps)
              /\ sent = <<>>
              /\ Ended =>
                   /\ outcome.kind = "raise"
                   /\ IF ~Truthy(HintDataset) \/ ~Truthy(HintGenome)
                      THEN /\ outcome.type = "KeyError"
                           /\ outcome.msg = KeyErrorMsg(HintVersion)
                           /\ Last(steps) = "RESOLVE_DATASET_AND_GENOME"
                      ELSE /\ outcome.type = "ValueError"
                           /\ outcome.msg = UnknownVersionMsg(HintVersion)
                           /\ Last(steps) = "VALIDATE_QUERY_SUPPORT"
        /\ ~Truthy(HintVersion) =>
              IF Detected.raised THEN ResolutionFailed
              ELSE version = Detected.value

\* The hint v5 given with a dataset and a reference genome that resolve to v4
\* was kept as the version and rejected as unknown.
C17_Witness ==
    /\ HintVersion = "v5"
    /\ HintDataset = "gnomad_r4"
    /\ HintGenome = "GRCh38"
    /\ version = "v5"
    /\ RaisedIn("VALIDATE_QUERY_SUPPORT")
    /\ outcome.msg = UnknownVersionMsg("v5")

\* ------------------------------------------------------------------------
\* C18
\* ------------------------------------------------------------------------

\* The call of the docstring example of run_query: the gene query with a
\* reference genome of GRCh38 and neither dataset nor version.
DocumentedExample ==
    /\ query_name = "gene"
    /\ "version" \notin DOMAIN variables
    /\ "dataset" \notin DOMAIN variables
    /\ HintGenome = "GRCh38"

\* C18 as stated: the documented example call is valid: it passes version
\* resolution and query-support validation and goes on to load the document
\* of the gene query.
C18_DocumentedExampleValid ==
    (DocumentedExample /\ Ended) =>
        /\ ~ResolutionFailed
        /\ ~RaisedIn("VALIDATE_QUERY_SUPPORT")
        /\ "LOAD_DOCUMENT" \in Range(steps)

\* ------------------------------------------------------------------------
\* C20
\* ------------------------------------------------------------------------

\* The descriptor is a chain of wrappers around a named type.
WrappersOverNamedType(t) ==
    /\ t /= <<>>
    /\ \A n \in 1..(Len(t) - 1) : t[n].kind \in WrapperKinds
    /\ t[Len(t)].kind \notin WrapperKinds
    /\ Truthy(t[Len(t)].name)

\* The text built from the name outwards: wrapper n of the chain is applied
\* to the text of everything below it.
RECURSIVE WrapOutwards(_, _, _)
WrapOutwards(pieces, t, n) ==
    IF n = 0 THEN pieces
    ELSE WrapOutwards(IF t[n].kind = "NON_NULL"
                      THEN pieces \o <<"!">>
                      ELSE <<"[">> \o pieces \o <<"]">>,
                      t, n - 1)

Notation(t) == WrapOutwards(<<t[Len(t)].name>>, t, Len(t) - 1)

Rendered(r) == r /= NotRendered

\* C20: for every chain of wrappers over a named type, both renderers return
\* the name with each wrapper applied in wrapping order, NON_NULL appending
\* "!" and LIST enclosing in brackets: NON_NULL(LIST(T)) is "[T]!" and
\* LIST(NON_NULL(T)) is "[T!]".
C20_RenderingFollowsWrapping ==
    WrappersOverNamedType(type_input) =>
        \A r \in {gql, type_string} :
            Rendered(r) =>
                /\ ~r.raised
                /\ r.text = Notation(type_input)
                /\ type_input = Named("OBJECT", "T") => r.text = <<"T">>
                /\ type_input = Wrap("NON_NULL", Wrap("LIST", Named("OBJECT", "T")))
                      => r.text = <<"[", "T", "]", "!">>
                /\ type_input = Wrap("LIST", Wrap("NON_NULL", Named("OBJECT", "T")))
                      => r.text = <<"[", "T", "!", "]">>

\* LIST(NON_NULL(T)) was rendered by both renderers.
C20_Witness ==
    /\ type_input = Wrap("LIST", Wrap("NON_NULL", Named("OBJECT", "T")))
    /\ Rendered(gql)
    /\ Rendered(type_string)
    /\ gql.text = <<"[", "T", "!", "]">>

\* ------------------------------------------------------------------------
\* C19
\* ------------------------------------------------------------------------

\* The top-level derivation call has returned.
Derived == pc = "HALT" /\ stack = <<>>

\* The type name a rendered field type is about.
InnerName(text) == CHOOSE p \in Range(text) : p \notin {"[", "]", "!"}

\* The calls on the stack that got past the head of the function: the types
\* being expanded on the current path, root first.
ExpandingPath ==
    SelectSeq([n \in 1..Len(stack) |-> stack[n]],
              LAMBDA f : f.at /= "entry")

\* In a derived field map, no field below the given path is expanded into
\* the fields of a type of the path, or of its own type further down.
RECURSIVE NoRepeatOnPath(_, _)
NoRepeatOnPath(fields, path) ==
    \A n \in 1..Len(fields) :
        fields[n].subfields /= <<>> =>
            /\ InnerName(fields[n].type) \notin path
            /\ NoRepeatOnPath(fields[n].subfields,
                              path \cup {InnerName(fields[n].type)})

\* A.x is of type B and B.x is of type A.
TwoCycle ==
    ("A" :> TypeDef(<<[name |-> "x", type |-> Named("OBJECT", "B")]>>))
    @@ ("B" :> TypeDef(<<[name |-> "x", type |-> Named("OBJECT", "A")]>>))

\* A's derived fields under TwoCycle: B expanded once, its field of type A
\* left without nested fields.
TwoCycleFields ==
    <<[name |-> "x", type |-> <<"B">>,
       subfields |-> <<[name |-> "x", type |-> <<"A">>,
                        subfields |-> <<>>]>>]>>

\* No type is expanded twice on one path, during the derivation and in its
\* result.
NoTypeTwiceOnPath ==
    /\ \A m, n \in 1..Len(ExpandingPath) :
          ExpandingPath[m].type_name = ExpandingPath[n].type_name => m = n
    /\ Len(stack) <= Cardinality(TypeNames) + 1
    /\ Derived =>
          /\ NoRepeatOnPath(returned, {root_type})
          /\ types_map = TwoCycle => returned = TwoCycleFields

\* C19: the field derivation terminates on every schema, cyclic ones
\* included, and never expands a type name twice on one root-to-leaf path;
\* for A.x of type B and B.x of type A, deriving A expands B once and leaves
\* B's field of type A without nested fields.
C19_DerivationTerminates == []NoTypeTwiceOnPath /\ <>Derived

\* The derivation of A over the two-type cycle returned.
C19_Witness ==
    /\ Derived
    /\ types_map = TwoCycle
    /\ returned = TwoCycleFields

\* ------------------------------------------------------------------------
\* C25
\* ------------------------------------------------------------------------

\* The consistency step has run for the current dispatch.
ConsistencyDone == "VALIDATE_CONSISTENCY" \in Range(steps)

\* The consistency step raised the mismatch error.
MismatchRaised ==
    /\ RaisedIn("VALIDATE_CONSISTENCY")
    /\ outcome.msg[1] = "Inconsistent version: got "

\* The hint differs from the version of a supplied dataset of the table.
HintAgainstKnownDataset ==
    /\ Truthy(HintVersion)
    /\ HintDataset \in KnownDatasets
    /\ ALL_DATASET_TO_VERSION[HintDataset] /= HintVersion

\* The supplied dataset is not in the table and the first version of the
\* completed reference genome is not the hint.
HintAgainstGenome ==
    /\ Truthy(HintVersion)
    /\ Truthy(HintDataset)
    /\ HintDataset \notin KnownDatasets
    /\ FirstGenomeMatch(VersionOrder, reference_genome) /= HintVersion

\* Without a version hint the consistency step never raises: the completed
\* pair resolves to the version resolved first.
NoHintAlwaysConsistent ==
    (~Truthy(HintVersion) /\ ConsistencyDone) =>
        /\ ~RaisedIn("VALIDATE_CONSISTENCY")
        /\ ~detect_version(dataset, reference_genome).raised
        /\ detect_version(dataset, reference_genome).value = version

\* C25 as stated: without a version hint the consistency step never fails,
\* and the mismatch is raised only when a version hint differs from the
\* version of a supplied dataset that is in the dataset table.
C25_MismatchOnlyAgainstKnownDataset ==
    /\ NoHintAlwaysConsistent
    /\ MismatchRaised => HintAgainstKnownDataset

\* C25 (amended): without a version hint the consistency step never fails;
\* the mismatch is raised only with a version hint, which either differs from
\* the version of a supplied dataset of the table, or comes with a supplied
\* dataset that is not in the table while the first version of the
\* reference genome (supplied, or the default of the hint) is another one.
C25_MismatchOnlyWithHint ==
    /\ NoHintAlwaysConsistent
    /\ MismatchRaised => (HintAgainstKnownDataset \/ HintAgainstGenome)
    /\ (HintVersion \in Versions /\ ConsistencyDone
        /\ (HintAgainstKnownDataset \/ HintAgainstGenome))
          => RaisedIn("VALIDATE_CONSISTENCY")

\* The hint v4 with a dataset outside the table and GRCh38, which resolve to
\* v3, was rejected as inconsistent.
C25_Witness ==
    /\ HintVersion = "v4"
    /\ HintDataset = "unknown_ds"
    /\ HintGenome = "GRCh38"
    /\ MismatchRaised
    /\ outcome.msg = InconsistentMsg("v4", "v3")

\* ------------------------------------------------------------------------
\* C27
\* ------------------------------------------------------------------------

\* The caller names a dataset that is not in the table and the version is
\* resolved by the reference genome.
UnknownDatasetGenomeResolved ==
    /\ Detecting
    /\ Truthy(HintDataset)
    /\ HintDataset \notin KnownDatasets
    /\ GenomeVersions(HintGenome) /= {}

\* C27: a dispatch with a dataset that is not in the table, resolved by its
\* reference genome, is not rejected for the dataset: resolution succeeds,
\* the dataset local keeps the caller's value instead of the version
\* default, the consistency step passes, a supported query goes on to the
\* document load and the transport receives the dataset unchanged.
C27_UnknownDatasetForwarded ==
    UnknownDatasetGenomeResolved =>
        /\ ~ResolutionFailed
        /\ version \in GenomeVersions(HintGenome)
        /\ "RESOLVE_DATASET_AND_GENOME" \in Range(steps) =>
              /\ dataset = HintDataset
              /\ dataset /= DATASET_MAP[version]
        /\ ~RaisedIn("RESOLVE_DATASET_AND_GENOME")
        /\ ~RaisedIn("VALIDATE_CONSISTENCY")
        /\ (Ended /\ IsSupported(version, query_name)) =>
              "LOAD_DOCUMENT" \in Range(steps)
        /\ \A n \in 1..Len(sent) :
              Get(sent[n].variable_values, "dataset") = HintDataset

\* unknown_ds with GRCh38 was resolved to v3 and sent to the transport.
C27_Witness ==
    /\ UnknownDatasetGenomeResolved
    /\ HintDataset = "unknown_ds"
    /\ HintGenome = "GRCh38"
    /\ version = "v3"
    /\ ConsistencyDone
    /\ sent /= <<>>
    /\ Get(sent[1].variable_values, "dataset") = "unknown_ds"

\* ------------------------------------------------------------------------
\* C26
\* ------------------------------------------------------------------------

\* The version whose supported list has the query of each dataset-restricted
\* tool.
RestrictedToolVersion ==
    [get_gene_info |-> "v4",
     get_region_info |-> "v4",
     get_mitochondrial_variant_info |-> "v4",
     get_copy_number_variant_info |-> "v4",
     get_str_info |-> "v4",
     get_variant_liftover |-> "v2"]

\* A dataset-restricted tool accepted the call and called the dispatcher.
RestrictedToolAccepted ==
    /\ tool \in DOMAIN RestrictedToolVersion
    /\ ToolActed
    /\ ~ToolRejected

\* C26: every call accepted by a dataset-restricted tool (gene, region,
\* mitochondrial_variant, copy_number_variant, short_tandem_repeat, and
\* liftover in both accepted forms) is resolved to the version that supports
\* the query of the tool, and is rejected neither as unsupported nor as
\* inconsistent: it goes on to the document load.
C26_RestrictedToolsDispatch ==
    RestrictedToolAccepted =>
        /\ ~ResolutionFailed
        /\ ResolutionDone =>
              /\ version = RestrictedToolVersion[tool]
              /\ IsSupported(version, query_name)
        /\ ~RaisedIn("RESOLVE_DATASET_AND_GENOME")
        /\ ~RaisedIn("VALIDATE_QUERY_SUPPORT")
        /\ ~RaisedIn("VALIDATE_CONSISTENCY")
        /\ Ended => "LOAD_DOCUMENT" \in Range(steps)

\* The liftover tool called with gnomad_r2_1 and GRCh38 was resolved to v2
\* and got to the document load.
C26_Witness ==
    /\ tool = "get_variant_liftover"
    /\ ToolDataset = "gnomad_r2_1"
    /\ ToolGenome = "GRCh38"
    /\ version = "v2"
    /\ query_name = "liftover"
    /\ "LOAD_DOCUMENT" \in Range(steps)

\* ------------------------------------------------------------------------
\* C22
\* ------------------------------------------------------------------------

\* The record the test runs, and the version its list is for.
TestRecord == all_params[i]
TestListVersion == out_path[1]

\* The test has called the tool.
TestActed == pc \notin {"TEST", "TOOL"}

\* C22: every record of the three test parameter lists, called through the
\* tool of its query name, binds to the tool's parameters and passes its
\* validation; the dispatcher resolves it to the version of its list, finds
\* the query supported and consistent, and goes on to the document load.
C22_TestRecordsReachDocumentLoad ==
    TestActed =>
        /\ tool = QUERY_NAME_TO_FUNC[TestRecord["query_name"]]
        /\ tool_outcome.kind /= "raise"
        /\ query_name = TestRecord["query_name"]
        /\ ~ResolutionFailed
        /\ ResolutionDone =>
              /\ version = TestListVersion
              /\ IsSupported(version, query_name)
        /\ ~RaisedIn("RESOLVE_DATASET_AND_GENOME")
        /\ ~RaisedIn("VALIDATE_QUERY_SUPPORT")
        /\ ~RaisedIn("VALIDATE_CONSISTENCY")
        /\ Ended => "LOAD_DOCUMENT" \in Range(steps)

\* The v2 liftover record with GRCh38 went through its tool, was resolved to
\* v2, got to the document load and had its result saved.
C22_Witness ==
    /\ pc = "SAVED"
    /\ TestListVersion = "v2"
    /\ TestRecord["query_name"] = "liftover"
    /\ TestRecord["reference_genome"] = "GRCh38"
    /\ version = "v2"
    /\ "LOAD_DOCUMENT" \in Range(steps)
    /\ written /= <<>>

\* ------------------------------------------------------------------------
\* C23
\* ------------------------------------------------------------------------

\* The type has fields of its own to be expanded into.
Expandable(type_name) ==
    /\ type_name \in DOMAIN types_map
    /\ types_map[type_name].has_fields
    /\ types_map[type_name].fields /= <<>>

\* In a derived field map below the given path, every field of an expandable
\* type that is not on the path has nested fields.
RECURSIVE CutOnlyOnPath(_, _)
CutOnlyOnPath(fields, path) ==
    \A n \in 1..Len(fields) :
        LET inner == InnerName(fields[n].type)
        IN  /\ (Expandable(inner) /\ inner \notin path) =>
                  fields[n].subfields /= <<>>
            /\ CutOnlyOnPath(fields[n].subfields, path \cup {inner})

\* A.x and A.y are both of type B, which has a scalar field.
TwoBranches ==
    ("A" :> TypeDef(<<[name |-> "x", type |-> Named("OBJECT", "B")],
                      [name |-> "y", type |-> Named("OBJECT", "B")]>>))
    @@ ("B" :> TypeDef(<<[name |-> "x", type |-> Named("SCALAR", "String")]>>))

\* C23 as stated: a type is cut short only when it already occurs on the
\* current descent path; a composite type reached through two branches that
\* are not ancestors of one another (A.x: B and A.y: B) has its nested fields
\* in both branches.
C23_CutOnlyOnDescentPath ==
    Derived =>
        /\ CutOnlyOnPath(returned, {root_type})
        /\ types_map = TwoBranches =>
              /\ returned[1].subfields /= <<>>
              /\ returned[2].subfields = returned[1].subfields

\* ------------------------------------------------------------------------
\* C24
\* ------------------------------------------------------------------------

\* The type is absent from the schema or has no field list.
Underivable(type_name) ==
    \/ type_name \notin DOMAIN types_map
    \/ ~types_map[type_name].has_fields

\* The field map holds one entry for every field of the type, in order, each
\* with its name and rendered type; a field of an underivable type has no
\* nested fields, and nested fields are the field map of the inner type.
RECURSIVE EveryFieldRecorded(_, _)
EveryFieldRecorded(fields, type_name) ==
    IF Underivable(type_name) THEN fields = <<>>
    ELSE LET declared == types_map[type_name].fields
         IN  /\ Len(fields) = Len(declared)
             /\ \A n \in 1..Len(fields) :
                   LET inner == _extract_inner_type(declared[n].type).name
                   IN  /\ fields[n].name = declared[n].name
                       /\ fields[n].type =
                              _type_to_string(declared[n].type).text
                       /\ Underivable(inner) => fields[n].subfields = <<>>
                       /\ fields[n].subfields /= <<>> =>
                              EveryFieldRecorded(fields[n].subfields, inner)

\* C24: a type name that is absent from the schema, or whose definition has
\* no field list, gives an empty map without failing: the derivation returns,
\* the enclosing field is recorded without nested fields, and every sibling
\* field of the enclosing type is still derived.
C24_MissingTypeTolerated ==
    Derived => EveryFieldRecorded(returned, root_type)

\* A.x is of a type absent from the schema and A.y of a type with a field:
\* x was recorded without nested fields and y after it with them.
C24_Witness ==
    /\ Derived
    /\ Len(returned) = 2
    /\ InnerName(returned[1].type) \notin DOMAIN types_map
    /\ returned[1].subfields = <<>>
    /\ returned[2].subfields /= <<>>

\* ------------------------------------------------------------------------
\* C28
\* ------------------------------------------------------------------------

\* What a derivation gives: the fields it returns and the visited set it
\* leaves behind, or the TypeError of _extract_inner_type on a field whose
\* type is None, with the visited set as it is then.
DerivedFields(fields, seen) ==
    [raised |-> FALSE, fields |-> fields, seen |-> seen]
DerivationTypeError(seen) == [raised |-> TRUE, fields |-> <<>>, seen |-> seen]

\* get_required_fields_for_type(type_name, visited) as a function of the
\* schema.
RECURSIVE DeriveType(_, _, _), DeriveLoop(_, _, _, _, _)
DeriveType(schema, type_name, seen) ==
    IF type_name \in seen THEN DerivedFields(<<>>, seen)
    ELSE IF \/ type_name \in ScalarNames
            \/ ~Truthy(type_name)
            \/ type_name \notin DOMAIN schema
         THEN DerivedFields(<<>>, seen \cup {type_name})
         ELSE IF ~schema[type_name].has_fields
         THEN DerivedFields(<<>>, seen \cup {type_name})
         ELSE DeriveLoop(schema, schema[type_name].fields, 1,
                         seen \cup {type_name}, <<>>)

\* The loop over the fields from position n on, with the entries so far.  An
\* exception of _extract_inner_type or of the recursive call leaves the loop.
DeriveLoop(schema, declared, n, seen, entries) ==
    IF n > Len(declared) THEN DerivedFields(entries, seen)
    ELSE LET inner == _extract_inner_type(declared[n].type)
             entry == [name |-> declared[n].name,
                       type |-> _type_to_string(declared[n].type).text,
                       subfields |-> <<>>]
         IN  IF inner.raised THEN DerivationTypeError(seen)
             ELSE IF inner.name \notin ScalarNames
             THEN LET nested == DeriveType(schema, inner.name, seen)
                  IN  IF nested.raised THEN nested
                      ELSE DeriveLoop(schema, declared, n + 1, nested.seen,
                                      Append(entries,
                                             [entry EXCEPT
                                                !.subfields = nested.fields]))
             ELSE DeriveLoop(schema, declared, n + 1, seen,
                             Append(entries, entry))

\* The type names a field map expands: one per field with nested fields, in
\* the whole map.
RECURSIVE ExpandedNames(_)
ExpandedNames(fields) ==
    IF fields = <<>> THEN <<>>
    ELSE LET first == Head(fields)
         IN  (IF first.subfields /= <<>>
              THEN <<InnerName(first.type)>> \o ExpandedNames(first.subfields)
              ELSE <<>>)
             \o ExpandedNames(Tail(fields))

\* No type name is expanded twice in the field map of the given return type,
\* and the return type is not expanded again below itself.
ExpandedAtMostOnce(return_type, fields) ==
    LET names == ExpandedNames(fields)
    IN  /\ \A m, n \in 1..Len(names) : names[m] = names[n] => m = n
        /\ \A n \in 1..Len(names) : names[n] /= return_type

\* generate_query_field_map has returned.
FieldMapDone == pc = "DONE"

\* C28: within one top-level field derivation every composite type name is
\* expanded at most once in the whole resulting field map, and the fields
\* derived for one query's return type do not depend on which other queries'
\* return types were derived before it: they are the fields of a derivation
\* that starts from an empty visited set.
C28_TopLevelDerivationsIndependent ==
    \A n \in 1..Len(query_field_map) :
        LET written_entry == query_field_map[n]
            alone == DeriveType(types_map, written_entry.return_type, {})
        IN  /\ ExpandedAtMostOnce(written_entry.return_type,
                                  written_entry.fields)
            /\ ~alone.raised
            /\ written_entry.fields = alone.fields

\* Two queries were derived in turn, the second one's return type is expanded
\* inside the first one's field map, and both field maps have nested fields.
C28_Witness ==
    /\ FieldMapDone
    /\ Len(query_field_map) = 2
    /\ query_field_map[1].return_type /= query_field_map[2].return_type
    /\ query_field_map[2].fields /= <<>>
    /\ \E n \in 1..Len(ExpandedNames(query_field_map[1].fields)) :
          ExpandedNames(query_field_map[1].fields)[n] =
              query_field_map[2].return_type

\* ------------------------------------------------------------------------
\* C21
\* ------------------------------------------------------------------------

\* How execute_query_sync(document, variable_values) can end in a process in
\* which no other dispatch has run: inside a running loop the only execution
\* is the one of the except clause, which wraps every error; without a
\* running loop it is the one of asyncio.run.
AloneOutcomes(document, variable_values) ==
    IF loop_running
    THEN {Return(DataResponse(document, variable_values))}
         \cup { Raise("RuntimeError", FailedMsg(TransportErrorMsg(o))) :
                  o \in TransportOutcomes \ {"ok"} }
    ELSE { Return(DataResponse(document, variable_values)),
           Raise("TransportError", TransportErrorMsg("TransportError")),
           Raise("RuntimeError",
                 FailedMsg(NoCurrentLoopMsg)) }

\* The envelopes run_query_with_metadata returns for these outcomes.
AloneEnvelopes ==
    { MakeEnvelope(query_name, request_variables,
                   IF o.kind = "return" THEN o.value
                   ELSE ErrorResponse(o.msg)) :
        o \in AloneOutcomes(query_str, variables) }

\* A dispatch that went through its transport call returned an envelope it
\* can return when it runs alone.
EnvelopeAsAlone ==
    (pc = "WRITE" /\ "EXECUTE" \in Range(steps)) => result \in AloneEnvelopes

\* The other dispatch is in flight: it has started and has not ended.
OtherInFlight ==
    /\ parked /= NoParked
    /\ parked.pc \notin ReturnedOrRaised \cup {"ENTER"}

\* Where execute_query_sync reads the state of asyncio: is asyncio.run
\* usable inside the running loop, does the thread have a loop.
ReadsAsyncioState == pc \in {"EXECUTE", "FALLBACK"}

\* What a dispatch reads while the other one is in flight is what the process
\* started with: nothing the other dispatch wrote.
NoSharedWrite == (OtherInFlight /\ ReadsAsyncioState) => ~nest_applied

\* C21: concurrent dispatches do not interfere: in every interleaving of two
\* dispatches around their transport calls each dispatch returns an envelope
\* it can return when it runs alone, and no step of a dispatch writes state
\* that the other dispatch reads.
C21_ConcurrentDispatchesIndependent ==
    /\ EnvelopeAsAlone
    /\ NoSharedWrite

====
